---- MODULE Spec2Model ----
(***************************************************************************)
(* A model of the JSON formatter: tokenizer (src/src/tokenizer.rs),        *)
(* parser (src/src/parser.rs), formatter (src/src/formatter.rs) and the    *)
(* pipeline that chains them (src/src/main.rs, src/src/lib.rs).            *)
(*                                                                         *)
(* A character is its Unicode scalar value (Rust `char`), a text is a      *)
(* sequence of characters.  A 64-bit float is the shortest decimal that    *)
(* reads back as it, in normal form (sign, digits of the mantissa without  *)
(* leading or trailing zeros, power of ten), which is what Rust's Display  *)
(* prints; a decimal is read as the nearest float by exact arithmetic.     *)
(***************************************************************************)
EXTENDS Integers, Sequences, FiniteSets, TLC

VARIABLES
    value,      \* the value tree the input was built from, if it was built from one
    input,      \* the text handed to the pipeline
    chars,      \* tokenize: the characters not yet consumed (Peekable<Chars>)
    tokens,     \* tokenize: the tokens pushed so far; afterwards the parser's input
    tokenized,  \* the result of tokenize, once it has returned
    parsed,     \* the result of parser, once it has returned
    output,     \* the result of format, once it has returned
    stdout,     \* the lines printed to the standard output
    stderr,     \* the diagnostic written before exit(1), if any
    pc          \* the stage of the pipeline

vars == <<value, input, chars, tokens, tokenized, parsed, output, stdout, stderr, pc>>

(***************************************************************************)
(* Characters                                                              *)
(***************************************************************************)
Ord(c) ==
    CASE c = "\t" -> 9    [] c = "\n" -> 10   [] c = "\r" -> 13  [] c = " " -> 32
      [] c = "\"" -> 34   [] c = "+" -> 43    [] c = "," -> 44   [] c = "-" -> 45
      [] c = "." -> 46    [] c = "/" -> 47    [] c = "0" -> 48   [] c = "1" -> 49
      [] c = "2" -> 50    [] c = "3" -> 51    [] c = "4" -> 52   [] c = "5" -> 53
      [] c = "6" -> 54    [] c = "7" -> 55    [] c = "8" -> 56   [] c = "9" -> 57
      [] c = ":" -> 58    [] c = "?" -> 63    [] c = "A" -> 65    [] c = "D" -> 68   [] c = "E" -> 69
      [] c = "F" -> 70    [] c = "T" -> 84    [] c = "[" -> 91   [] c = "\\" -> 92
      [] c = "]" -> 93    [] c = "a" -> 97    [] c = "b" -> 98   [] c = "c" -> 99
      [] c = "d" -> 100   [] c = "e" -> 101   [] c = "f" -> 102  [] c = "g" -> 103
      [] c = "h" -> 104   [] c = "i" -> 105   [] c = "l" -> 108   [] c = "n" -> 110  [] c = "r" -> 114
      [] c = "s" -> 115   [] c = "t" -> 116   [] c = "u" -> 117  [] c = "x" -> 120
      [] c = "{" -> 123   [] c = "}" -> 125
      [] c = "e'" -> 233  \* U+00E9, e with acute accent: two bytes in UTF-8

\* The text whose characters are the one-character strings of s.
Txt(s) == [i \in 1..Len(s) |-> Ord(s[i])]

QUOTE == Ord("\"")
BACKSLASH == Ord("\\")
\* Whitespace without the carriage return.
Whitespace_no_cr == {Ord(" "), Ord("\n"), Ord("\t")}

Whitespace == {Ord(" "), Ord("\n"), Ord("\t"), Ord("\r")}
Structural == {Ord("["), Ord("]"), Ord("{"), Ord("}"), Ord(":"), Ord(",")}
Digits == Ord("0")..Ord("9")
NumberChars == Digits \cup {Ord("-"), Ord("+"), Ord("e"), Ord("E"), Ord(".")}

\* str::len counts UTF-8 bytes, not characters.
Utf8Len(c) == IF c < 128 THEN 1 ELSE IF c < 2048 THEN 2 ELSE IF c < 65536 THEN 3 ELSE 4

RECURSIVE ByteLen(_)
ByteLen(s) == IF s = <<>> THEN 0 ELSE Utf8Len(Head(s)) + ByteLen(Tail(s))

Repeat(s, n) == IF n <= 0 THEN <<>> ELSE [i \in 1..(n * Len(s)) |-> s[((i - 1) % Len(s)) + 1]]

(***************************************************************************)
(* Tokens and tokenizer errors                                             *)
(***************************************************************************)
LeftSquareBracket == [type |-> "LeftSquareBracket"]
LeftCurlyBracket == [type |-> "LeftCurlyBracket"]
RightSquareBracket == [type |-> "RightSquareBracket"]
RightCurlyBracket == [type |-> "RightCurlyBracket"]
Colon == [type |-> "Colon"]
Comma == [type |-> "Comma"]
TrueToken == [type |-> "True"]
FalseToken == [type |-> "False"]
NullToken == [type |-> "Null"]
StringToken(s) == [type |-> "String", text |-> s]
NumberToken(n) == [type |-> "Number", num |-> n]

UnexpectedLiteral(s) == [kind |-> "UnexpectedLiteral", literal |-> s]
UnexpectedCharacter(c) == [kind |-> "UnexpectedCharacter", char |-> c]
UnexpectedEndOfInput == [kind |-> "UnexpectedEndOfInput"]
InvalidEscapeCharacter(s) == [kind |-> "InvalidEscapeCharacter", escape |-> s]
InvalidNumberLiteral(s) == [kind |-> "InvalidNumberLiteral", literal |-> s]

\* What a sub-scanner leaves: its Result and the characters it did not consume.
\* "Panic" is the abnormal abort of a failed unwrap().
ScanOk(token, rest) == [st |-> "Ok", token |-> token, rest |-> rest]
ScanErr(err, rest) == [st |-> "Err", err |-> err, rest |-> rest]
ScanPanic(rest) == [st |-> "Panic", rest |-> rest]

(***************************************************************************)
(* tokenize_string                                                         *)
(***************************************************************************)
HexDigits == Digits \cup (Ord("a")..Ord("f")) \cup (Ord("A")..Ord("F"))

HexDigitValue(c) ==
    IF c \in Digits THEN c - Ord("0")
    ELSE IF c \in Ord("a")..Ord("f") THEN c - Ord("a") + 10
    ELSE c - Ord("A") + 10

RECURSIVE HexValue(_)
HexValue(s) == IF s = <<>> THEN 0 ELSE HexValue(SubSeq(s, 1, Len(s) - 1)) * 16 + HexDigitValue(s[Len(s)])

\* u32::from_str_radix(s, 16): one leading '+' is accepted before the digits, a
\* '-' is not (the type is unsigned), and a sign alone or the empty text is an
\* error.  [ok |-> FALSE] is Err(ParseIntError).
from_str_radix(s) ==
    LET digits == IF s /= <<>> /\ Head(s) = Ord("+") THEN Tail(s) ELSE s
    IN  IF digits = <<>> \/ \E i \in 1..Len(digits) : digits[i] \notin HexDigits
        THEN [ok |-> FALSE]
        ELSE [ok |-> TRUE, n |-> HexValue(digits)]

\* char::try_from(u32): every value but the surrogates and those above 10FFFF.
IsScalarValue(n) == n <= 1114111 /\ ~(n >= 55296 /\ n <= 57343)

\* The inner loop of the 'u' escape: collect characters up to a double quote,
\* the end of input, or the moment the collected text is four BYTES long.
RECURSIVE collect_hex(_, _)
collect_hex(cs, hex_chars) ==
    IF cs = <<>> \/ Head(cs) = QUOTE THEN [hex |-> hex_chars, rest |-> cs]
    ELSE LET h == Append(hex_chars, Head(cs))
         IN  IF ByteLen(h) = 4 THEN [hex |-> h, rest |-> Tail(cs)]
             ELSE collect_hex(Tail(cs), h)

IsSimpleEscape(c) ==
    c \in {QUOTE, BACKSLASH, Ord("/"), Ord("b"), Ord("f"), Ord("n"), Ord("r"), Ord("t")}

SimpleEscape(c) ==
    CASE c = Ord("b") -> 8 [] c = Ord("f") -> 12 [] c = Ord("n") -> 10
      [] c = Ord("r") -> 13 [] c = Ord("t") -> 9 [] OTHER -> c

\* The scan loop of tokenize_string, after the opening quote was consumed.
RECURSIVE string_loop(_, _)

\* Some('u'): the four characters after it, decoded (c is what collect_hex left).
unicode_escape(c, string_value) ==
    IF ByteLen(c.hex) /= 4 THEN ScanErr(InvalidEscapeCharacter(c.hex), c.rest)
    ELSE IF ~from_str_radix(c.hex).ok THEN ScanPanic(c.rest)
    ELSE IF IsScalarValue(from_str_radix(c.hex).n)
    THEN string_loop(c.rest, Append(string_value, from_str_radix(c.hex).n))
    ELSE ScanErr(InvalidEscapeCharacter(c.hex), c.rest)

\* '\\' => match chars.next(), cs being the characters after the backslash.
escape(cs, string_value) ==
    IF cs = <<>> THEN ScanErr(UnexpectedEndOfInput, cs)
    ELSE IF IsSimpleEscape(Head(cs))
    THEN string_loop(Tail(cs), Append(string_value, SimpleEscape(Head(cs))))
    ELSE IF Head(cs) = Ord("u") THEN unicode_escape(collect_hex(Tail(cs), <<>>), string_value)
    ELSE ScanErr(InvalidEscapeCharacter(<<Head(cs)>>), Tail(cs))

string_loop(cs, string_value) ==
    IF cs = <<>> THEN ScanOk(StringToken(string_value), <<>>)
    ELSE IF Head(cs) = QUOTE THEN ScanOk(StringToken(string_value), Tail(cs))
    ELSE IF Head(cs) = BACKSLASH THEN escape(Tail(cs), string_value)
    ELSE string_loop(Tail(cs), Append(string_value, Head(cs)))

tokenize_string(cs) == string_loop(Tail(cs), <<>>)

(***************************************************************************)
(* tokenize_literal                                                        *)
(***************************************************************************)
RECURSIVE literal_loop(_, _)
\* literal_loop stopping at a double quote too.
literal_loop_quote(cs, literal) ==
    IF cs = <<>> \/ Head(cs) \in Structural \cup Whitespace \cup {QUOTE}
    THEN [literal |-> literal, rest |-> cs]
    ELSE literal_loop(Tail(cs), Append(literal, Head(cs)))

literal_loop(cs, literal) ==
    IF cs = <<>> \/ Head(cs) \in Structural \cup Whitespace
    THEN [literal |-> literal, rest |-> cs]
    ELSE literal_loop(Tail(cs), Append(literal, Head(cs)))

tokenize_literal(cs) ==
    LET l == literal_loop(cs, <<>>)
    IN  IF l.literal = Txt(<<"t", "r", "u", "e">>) THEN ScanOk(TrueToken, l.rest)
        ELSE IF l.literal = Txt(<<"f", "a", "l", "s", "e">>) THEN ScanOk(FalseToken, l.rest)
        ELSE IF l.literal = Txt(<<"n", "u", "l", "l">>) THEN ScanOk(NullToken, l.rest)
        ELSE ScanErr(UnexpectedLiteral(l.literal), l.rest)

(***************************************************************************)
(* 64-bit floats: str::parse::<f64> and f64's Display                      *)
(***************************************************************************)
Finite(neg, mant, exp) == [cls |-> "finite", neg |-> neg, mant |-> mant, exp |-> exp]
Infinite(neg) == [cls |-> "inf", neg |-> neg]
Zero(neg) == Finite(neg, <<Ord("0")>>, 0)

\* let x = v; body is written The({body : x \in {v}}): the value v is computed
\* once and body reads it as x.
The(S) == CHOOSE out \in S : TRUE

\* The number of digit characters of s from position i on.
DigitRun(s, i) ==
    IF i > Len(s) THEN 0
    ELSE Cardinality({j \in i..Len(s) : \A h \in i..j : s[h] \in Digits})

StripLeadingZeros(d) ==
    SubSeq(d, 1 + Cardinality({j \in 1..Len(d) : \A h \in 1..j : d[h] = Ord("0")}), Len(d))

StripTrailingZeros(d) ==
    SubSeq(d, 1, Len(d) - Cardinality({j \in 1..Len(d) : \A h \in j..Len(d) : d[h] = Ord("0")}))

RECURSIVE DigitsToInt(_)
DigitsToInt(d) ==
    IF d = <<>> THEN 0
    ELSE DigitsToInt(SubSeq(d, 1, Len(d) - 1)) * 10 + (d[Len(d)] - Ord("0"))

\* A decimal exponent's digits as a number, as the parser of floats adds them
\* up: a digit is taken in while the number so far is below 65536 (0x10000), and
\* the digits behind that point are read and dropped.  Five digits stay below
\* 655360 and a sixth is taken in only behind five that are below 65536.
ExponentValue(d) ==
    LET e == StripLeadingZeros(d)
    IN  IF Len(e) <= 5 THEN DigitsToInt(e)
        ELSE IF DigitsToInt(SubSeq(e, 1, 5)) >= 65536 THEN DigitsToInt(SubSeq(e, 1, 5))
        ELSE DigitsToInt(SubSeq(e, 1, 6))

(***************************************************************************)
(* The float nearest to a decimal, and the decimal its Display shows.      *)
(* A finite float is k * 2^e with k below 2^53, and k at least 2^52 unless *)
(* e is -1074, the least exponent; e is at most 971.  A decimal is read as *)
(* the nearest float, a tie going to the even k, and a float is displayed  *)
(* with the fewest digits that read back as the same float: of those, the  *)
(* decimal nearest to it, a tie going to the even last digit.  The         *)
(* arithmetic is exact, on numbers written as sequences of digits 0..9,    *)
(* the most significant first, zero being the empty sequence.              *)
(***************************************************************************)
DigitValues(d) == [i \in 1..Len(d) |-> d[i] - Ord("0")]
DigitText(a) == [i \in 1..Len(a) |-> a[i] + Ord("0")]

\* The digits n stands for.
RECURSIVE IntDigits(_)
IntDigits(n) == IF n = 0 THEN <<>> ELSE Append(IntDigits(n \div 10), n % 10)

\* The sum of the products a[i] * b[c + 1 - i], i in lo..hi: the digits that
\* meet in column c of the long multiplication of a by b, columns counted from
\* the left.
RECURSIVE ColumnSum(_, _, _, _, _)
ColumnSum(a, b, c, lo, hi) ==
    IF lo > hi THEN 0
    ELSE IF lo = hi THEN a[lo] * b[c + 1 - lo]
    ELSE ColumnSum(a, b, c, lo, (lo + hi) \div 2) + ColumnSum(a, b, c, (lo + hi) \div 2 + 1, hi)

\* Columns lo..hi of the long multiplication of a by b with the carry cin coming
\* in from the right: their digits and the carry going out to the left.  The
\* right half is done first and its carry goes into the left half.
RECURSIVE Columns(_, _, _, _, _)
Columns(a, b, lo, hi, cin) ==
    IF lo = hi
    THEN The({ [digits |-> <<t % 10>>, cout |-> t \div 10]
               : t \in {ColumnSum(a, b, lo, IF lo + 1 - Len(b) > 1 THEN lo + 1 - Len(b) ELSE 1,
                                  IF lo < Len(a) THEN lo ELSE Len(a)) + cin} })
    ELSE The({ The({ [digits |-> l.digits \o r.digits, cout |-> l.cout]
                     : l \in {Columns(a, b, lo, (lo + hi) \div 2, r.cout)} })
               : r \in {Columns(a, b, (lo + hi) \div 2 + 1, hi, cin)} })

StripZeros(a) == SubSeq(a, 1 + Cardinality({j \in 1..Len(a) : \A h \in 1..j : a[h] = 0}), Len(a))

\* a * b.
BigMul(a, b) ==
    IF a = <<>> \/ b = <<>> THEN <<>>
    ELSE The({ StripZeros(IntDigits(p.cout) \o p.digits)
               : p \in {Columns(a, b, 1, Len(a) + Len(b) - 1, 0)} })

\* a + 1.
RECURSIVE BigSucc(_)
BigSucc(a) ==
    IF a = <<>> THEN <<1>>
    ELSE IF a[Len(a)] < 9 THEN [a EXCEPT ![Len(a)] = @ + 1]
    ELSE Append(BigSucc(SubSeq(a, 1, Len(a) - 1)), 0)

\* a < b.
BigLess(a, b) ==
    \/ Len(a) < Len(b)
    \/ /\ Len(a) = Len(b)
       /\ \E i \in 1..Len(a) : a[i] < b[i] /\ \A j \in 1..(i - 1) : a[j] = b[j]

\* base^j, by squaring the power of half the exponent.
RECURSIVE BigPow(_, _)
BigPow(base, j) ==
    IF j = 0 THEN <<1>>
    ELSE The({ IF j % 2 = 0 THEN BigMul(h, h) ELSE BigMul(BigMul(h, h), base)
               : h \in {BigPow(base, j \div 2)} })

\* 2^1074, the number of floats from 0 up to 1 in the lowest range.
TwoPow1074 ==
    <<2, 0, 2, 4, 0, 2, 2, 5, 3, 3, 0, 7, 3, 1, 0, 6, 1, 8, 3, 5, 2, 4, 9, 5, 3, 4, 6, 7, 1, 8,
      9, 1, 7, 3, 0, 7, 0, 4, 9, 5, 5, 6, 6, 4, 9, 7, 6, 4, 1, 4, 2, 1, 1, 8, 3, 5, 6, 9, 0, 1,
      3, 5, 8, 0, 2, 7, 4, 3, 0, 3, 3, 9, 5, 6, 7, 9, 9, 5, 3, 4, 6, 8, 9, 1, 9, 6, 0, 3, 8, 3,
      7, 0, 1, 4, 3, 7, 1, 2, 4, 4, 9, 5, 1, 8, 7, 0, 7, 7, 8, 6, 4, 3, 1, 6, 8, 1, 1, 9, 1, 1,
      3, 8, 9, 8, 0, 8, 7, 3, 7, 3, 8, 5, 7, 9, 3, 4, 7, 6, 8, 6, 7, 0, 1, 3, 3, 9, 9, 9, 4, 0,
      7, 3, 8, 5, 0, 9, 9, 2, 1, 5, 1, 7, 4, 2, 4, 2, 7, 6, 5, 6, 6, 3, 6, 1, 3, 6, 4, 4, 6, 6,
      9, 0, 7, 7, 4, 2, 0, 9, 3, 2, 1, 6, 3, 4, 1, 2, 3, 9, 7, 6, 7, 6, 7, 8, 4, 7, 2, 7, 4, 5,
      0, 6, 8, 5, 6, 2, 0, 0, 7, 4, 8, 3, 4, 2, 4, 6, 9, 2, 6, 9, 8, 6, 1, 8, 1, 0, 3, 3, 5, 5,
      6, 4, 9, 1, 5, 9, 5, 5, 6, 3, 4, 0, 8, 1, 0, 0, 5, 6, 5, 1, 2, 3, 5, 8, 7, 6, 9, 5, 5, 2,
      3, 3, 3, 4, 1, 4, 6, 1, 5, 2, 3, 0, 5, 0, 2, 5, 3, 2, 1, 8, 6, 3, 2, 7, 5, 0, 8, 6, 4, 6,
      0, 0, 6, 2, 6, 3, 3, 0, 7, 7, 0, 7, 7, 4, 1, 0, 9, 3, 4, 9, 4, 7, 8, 4>>


\* 5^1074: 2^-1074 is 5^1074 * 10^-1074.
FivePow1074 ==
    <<4, 9, 4, 0, 6, 5, 6, 4, 5, 8, 4, 1, 2, 4, 6, 5, 4, 4, 1, 7, 6, 5, 6, 8, 7, 9, 2, 8, 6, 8,
      2, 2, 1, 3, 7, 2, 3, 6, 5, 0, 5, 9, 8, 0, 2, 6, 1, 4, 3, 2, 4, 7, 6, 4, 4, 2, 5, 5, 8, 5,
      6, 8, 2, 5, 0, 0, 6, 7, 5, 5, 0, 7, 2, 7, 0, 2, 0, 8, 7, 5, 1, 8, 6, 5, 2, 9, 9, 8, 3, 6,
      3, 6, 1, 6, 3, 5, 9, 9, 2, 3, 7, 9, 7, 9, 6, 5, 6, 4, 6, 9, 5, 4, 4, 5, 7, 1, 7, 7, 3, 0,
      9, 2, 6, 6, 5, 6, 7, 1, 0, 3, 5, 5, 9, 3, 9, 7, 9, 6, 3, 9, 8, 7, 7, 4, 7, 9, 6, 0, 1, 0,
      7, 8, 1, 8, 7, 8, 1, 2, 6, 3, 0, 0, 7, 1, 3, 1, 9, 0, 3, 1, 1, 4, 0, 4, 5, 2, 7, 8, 4, 5,
      8, 1, 7, 1, 6, 7, 8, 4, 8, 9, 8, 2, 1, 0, 3, 6, 8, 8, 7, 1, 8, 6, 3, 6, 0, 5, 6, 9, 9, 8,
      7, 3, 0, 7, 2, 3, 0, 5, 0, 0, 0, 6, 3, 8, 7, 4, 0, 9, 1, 5, 3, 5, 6, 4, 9, 8, 4, 3, 8, 7,
      3, 1, 2, 4, 7, 3, 3, 9, 7, 2, 7, 3, 1, 6, 9, 6, 1, 5, 1, 4, 0, 0, 3, 1, 7, 1, 5, 3, 8, 5,
      3, 9, 8, 0, 7, 4, 1, 2, 6, 2, 3, 8, 5, 6, 5, 5, 9, 1, 1, 7, 1, 0, 2, 6, 6, 5, 8, 5, 5, 6,
      6, 8, 6, 7, 6, 8, 1, 8, 7, 0, 3, 9, 5, 6, 0, 3, 1, 0, 6, 2, 4, 9, 3, 1, 9, 4, 5, 2, 7, 1,
      5, 9, 1, 4, 9, 2, 4, 5, 5, 3, 2, 9, 3, 0, 5, 4, 5, 6, 5, 4, 4, 4, 0, 1, 1, 2, 7, 4, 8, 0,
      1, 2, 9, 7, 0, 9, 9, 9, 9, 5, 4, 1, 9, 3, 1, 9, 8, 9, 4, 0, 9, 0, 8, 0, 4, 1, 6, 5, 6, 3,
      3, 2, 4, 5, 2, 4, 7, 5, 7, 1, 4, 7, 8, 6, 9, 0, 1, 4, 7, 2, 6, 7, 8, 0, 1, 5, 9, 3, 5, 5,
      2, 3, 8, 6, 1, 1, 5, 5, 0, 1, 3, 4, 8, 0, 3, 5, 2, 6, 4, 9, 3, 4, 7, 2, 0, 1, 9, 3, 7, 9,
      0, 2, 6, 8, 1, 0, 7, 1, 0, 7, 4, 9, 1, 7, 0, 3, 3, 3, 2, 2, 2, 6, 8, 4, 4, 7, 5, 3, 3, 3,
      5, 7, 2, 0, 8, 3, 2, 4, 3, 1, 9, 3, 6, 0, 9, 2, 3, 8, 2, 8, 9, 3, 4, 5, 8, 3, 6, 8, 0, 6,
      0, 1, 0, 6, 0, 1, 1, 5, 0, 6, 1, 6, 9, 8, 0, 9, 7, 5, 3, 0, 7, 8, 3, 4, 2, 2, 7, 7, 3, 1,
      8, 3, 2, 9, 2, 4, 7, 9, 0, 4, 9, 8, 2, 5, 2, 4, 7, 3, 0, 7, 7, 6, 3, 7, 5, 9, 2, 7, 2, 4,
      7, 8, 7, 4, 6, 5, 6, 0, 8, 4, 7, 7, 8, 2, 0, 3, 7, 3, 4, 4, 6, 9, 6, 9, 9, 5, 3, 3, 6, 4,
      7, 0, 1, 7, 9, 7, 2, 6, 7, 7, 7, 1, 7, 5, 8, 5, 1, 2, 5, 6, 6, 0, 5, 5, 1, 1, 9, 9, 1, 3,
      1, 5, 0, 4, 8, 9, 1, 1, 0, 1, 4, 5, 1, 0, 3, 7, 8, 6, 2, 7, 3, 8, 1, 6, 7, 2, 5, 0, 9, 5,
      5, 8, 3, 7, 3, 8, 9, 7, 3, 3, 5, 9, 8, 9, 9, 3, 6, 6, 4, 8, 0, 9, 9, 4, 1, 1, 6, 4, 2, 0,
      5, 7, 0, 2, 6, 3, 7, 0, 9, 0, 2, 7, 9, 2, 4, 2, 7, 6, 7, 5, 4, 4, 5, 6, 5, 2, 2, 9, 0, 8,
      7, 5, 3, 8, 6, 8, 2, 5, 0, 6, 4, 1, 9, 7, 1, 8, 2, 6, 5, 5, 3, 3, 4, 4, 7, 2, 6, 5, 6, 2,
      5>>


TwoPow(j) == IF j = 1074 THEN TwoPow1074 ELSE BigPow(<<2>>, j)
FivePow(j) == IF j = 1074 THEN FivePow1074 ELSE BigPow(<<5>>, j)

\* Dividing by 2^e is multiplying by Power(e) and moving the decimal point: by
\* 2^-e when e is negative, and by 5^e and e places when it is not (1/2 is 5/10).
Power(e) == IF e >= 0 THEN FivePow(e) ELSE TwoPow(-e)

\* m * 10^x in units of 2^e, p being Power(e), as digits n and a count shift: the
\* quotient is n * 10^-shift.
Scaled(m, x, e, p) == [n |-> BigMul(m, p), shift |-> IF e >= 0 THEN e - x ELSE -x]

\* The whole part of n * 10^-shift.
FloorOf(q) ==
    IF q.shift <= 0 THEN q.n \o [i \in 1..(-q.shift) |-> 0]
    ELSE SubSeq(q.n, 1, Len(q.n) - q.shift)

\* m * 10^x in units of 2^e, p being Power(e), rounded to the nearest whole
\* number, a tie to the even one.
RoundAt(m, x, e, p) ==
    The({ IF q.shift <= 0 \/ Len(q.n) < q.shift THEN FloorOf(q)
          ELSE The({ IF \/ q.n[Len(q.n) - q.shift + 1] > 5
                        \/ /\ q.n[Len(q.n) - q.shift + 1] = 5
                           /\ \/ \E i \in (Len(q.n) - q.shift + 2)..Len(q.n) : q.n[i] /= 0
                              \/ (k /= <<>> /\ k[Len(k)] % 2 = 1)
                     THEN BigSucc(k) ELSE k
                     : k \in {FloorOf(q)} })
          : q \in {Scaled(m, x, e, p)} })

\* A binary exponent that is not above the float's, and at most eight below
\* it: 3.321928 is just under the binary logarithm of 10, sci is the decimal
\* exponent of the first digit, and -1074 is the least exponent there is.
LowExponent(sci) ==
    IF (sci * 3321928) \div 1000000 - 54 < -1074 THEN -1074
    ELSE (sci * 3321928) \div 1000000 - 54

\* The exponent of the float nearest to m * 10^x, m not zero, with sci between
\* -325 and 308: the whole quotient by 2^e0 tells how far e0 is below the
\* exponent at which the quotient is under 2^53.
ExponentFor(m, x) ==
    The({ The({ e0 + Cardinality({j \in 1..8 : ~BigLess(t, TwoPow(52 + j))})
                : t \in {FloorOf(Scaled(m, x, e0, Power(e0)))} })
          : e0 \in {LowExponent(x + Len(m) - 1)} })

\* The float nearest to m * 10^x: k and e, or infinity.  Rounding at the
\* float's exponent can reach 2^53, which is 2^52 at the next exponent.
NearestFloat(m, x) ==
    The({ The({ IF e > 971 \/ (e = 971 /\ k = TwoPow(53)) THEN [inf |-> TRUE]
                ELSE IF k = TwoPow(53) THEN [inf |-> FALSE, k |-> TwoPow(52), e |-> e + 1]
                ELSE [inf |-> FALSE, k |-> k, e |-> e]
                : k \in {RoundAt(m, x, e, Power(e))} })
          : e \in {ExponentFor(m, x)} })

TrailingZeros(a) == Cardinality({j \in 1..Len(a) : \A h \in j..Len(a) : a[h] = 0})

\* The decimal d * 10^q in normal form.
Decimal(neg, d, q) ==
    The({ Finite(neg, DigitText(SubSeq(d, 1, Len(d) - z)), q + z) : z \in {TrailingZeros(d)} })

\* Whether d * 10^q reads back as the float k * 2^e, d * 10^q being within one
\* unit of its last digit of the float, below it or not.  The float under
\* 2^52 * 2^e is half as far away as the one above, and units of 2^(e-1) tell.
\* p is Power(e), and Power(e - 1) where that one is used.
ReadsBack(d, q, below, k, e, p) ==
    IF k = TwoPow(52) /\ e > -1074
    THEN (IF below THEN RoundAt(d, q, e - 1, p) = TwoPow(53) ELSE RoundAt(d, q, e, Power(e)) = k)
    ELSE RoundAt(d, q, e, p) = k

\* The decimal of n digits that reads back as k * 2^e, which is c * 10^scale
\* exactly, if there is one.  The two candidates are c cut to n digits and that
\* plus one; the nearer one is tried first, the upper one when c is half way
\* between the two.
Candidate(neg, k, e, p, c, scale, n) ==
    IF n >= Len(c) \/ \A i \in (n + 1)..Len(c) : c[i] = 0
    THEN [found |-> TRUE, decimal |-> Decimal(neg, c, scale)]
    ELSE The({ The({ The({ IF ~up_first /\ ReadsBack(down, q, TRUE, k, e, p)
                           THEN [found |-> TRUE, decimal |-> Decimal(neg, down, q)]
                           ELSE IF ReadsBack(BigSucc(down), q, FALSE, k, e, p)
                           THEN [found |-> TRUE, decimal |-> Decimal(neg, BigSucc(down), q)]
                           ELSE IF up_first /\ ReadsBack(down, q, TRUE, k, e, p)
                           THEN [found |-> TRUE, decimal |-> Decimal(neg, down, q)]
                           ELSE [found |-> FALSE]
                           : up_first \in {c[n + 1] >= 5} })
                     : q \in {Len(c) - n + scale} })
               : down \in {SubSeq(c, 1, n)} })

\* The shortest decimal that reads back as k * 2^e, of lo digits at least and hi
\* at most.  Where n digits are enough so are n + 1, so the least count is
\* found by halving, and 17 digits are always enough.
RECURSIVE ShortestDecimal(_, _, _, _, _, _, _, _)
ShortestDecimal(neg, k, e, p, c, scale, lo, hi) ==
    IF lo >= hi THEN Candidate(neg, k, e, p, c, scale, lo).decimal
    ELSE IF Candidate(neg, k, e, p, c, scale, (lo + hi) \div 2).found
    THEN ShortestDecimal(neg, k, e, p, c, scale, lo, (lo + hi) \div 2)
    ELSE ShortestDecimal(neg, k, e, p, c, scale, (lo + hi) \div 2 + 1, hi)

\* The decimal Display shows for the float k * 2^e: k * 2^e is a whole number
\* when e is not negative, and k * 5^-e * 10^e when it is.
DisplayOf(neg, k, e) ==
    The({ The({ ShortestDecimal(neg, k, e, p, c, IF e >= 0 THEN 0 ELSE e, 1, IF Len(c) < 17 THEN Len(c) ELSE 17)
                : c \in {IF e >= 0 THEN BigMul(k, TwoPow(e)) ELSE BigMul(k, FivePow(-e))} })
          : p \in {IF k = TwoPow(52) /\ e > -1074 THEN Power(e - 1) ELSE Power(e)} })

\* The float nearest to (-1)^neg * sig * 10^exp10, sig without leading or
\* trailing zeros, as the decimal its Display shows.  sci is the decimal exponent
\* of the first digit.  From 1e309 on the float is infinite, below 1e-325 it
\* is zero.  A decimal of up to fifteen digits between 1e-307 and 1e308 is
\* itself the shortest decimal that reads back as its float, and so is one of
\* up to nine digits from 1e308 to 1.79769313e308, above which such a decimal
\* is infinite.  Every other decimal is rounded by exact arithmetic.
RoundToF64(neg, sig, exp10) ==
    LET sci == exp10 + Len(sig) - 1
    IN  IF sig = <<>> THEN Zero(neg)
        ELSE IF sci > 308 THEN Infinite(neg)
        ELSE IF sci < -325 THEN Zero(neg)
        ELSE IF Len(sig) <= 15 /\ sci >= -307 /\ sci <= 307 THEN Finite(neg, sig, exp10)
        ELSE IF Len(sig) <= 9 /\ sci = 308
        THEN (IF BigLess(<<1, 7, 9, 7, 6, 9, 3, 1, 3>>,
                         DigitValues(sig) \o [i \in 1..(9 - Len(sig)) |-> 0])
              THEN Infinite(neg) ELSE Finite(neg, sig, exp10))
        ELSE The({ IF f.inf THEN Infinite(neg)
                   ELSE IF f.k = <<>> THEN Zero(neg)
                   ELSE DisplayOf(neg, f.k, f.e)
                   : f \in {NearestFloat(DigitValues(sig), exp10)} })

\* The mantissa at the start of b: digits [ . [digits] ] | . digits, with the
\* number of characters it takes (0 when there is no digit at all).
MantissaOf(b) ==
    LET ni == DigitRun(b, 1)
        dot == ni < Len(b) /\ b[ni + 1] = Ord(".")
        nf == IF dot THEN DigitRun(b, ni + 2) ELSE 0
    IN  [int |-> SubSeq(b, 1, ni),
         frac |-> SubSeq(b, ni + 2, ni + 1 + nf),
         len |-> IF ni + nf = 0 THEN 0 ELSE ni + (IF dot THEN 1 + nf ELSE 0)]

\* What follows the mantissa: nothing, or (e|E) [+-] digits up to the end.
ExponentOf(r) ==
    IF r = <<>> THEN [ok |-> TRUE, e |-> 0]
    ELSE IF Head(r) \notin {Ord("e"), Ord("E")} THEN [ok |-> FALSE]
    ELSE LET t == Tail(r)
             signed == t /= <<>> /\ Head(t) \in {Ord("+"), Ord("-")}
             d == IF signed THEN Tail(t) ELSE t
         IN  IF d = <<>> \/ DigitRun(d, 1) /= Len(d) THEN [ok |-> FALSE]
             ELSE [ok |-> TRUE,
                   e |-> IF signed /\ Head(t) = Ord("-") THEN -ExponentValue(d)
                         ELSE ExponentValue(d)]

\* The float of a mantissa's digits and a decimal exponent.
DecimalToF64(neg, int, frac, e) ==
    The({ The({ RoundToF64(neg, sig, e - Len(frac) + (Len(lead) - Len(sig)))
                : sig \in {StripTrailingZeros(lead)} })
          : lead \in {StripLeadingZeros(int \o frac)} })

\* str::parse::<f64>:  [+-] ( digits [ . [digits] ] | . digits ) [ (e|E) [+-] digits ]
\* ("inf", "infinity" and "nan" are accepted by Rust too, but hold characters
\* the number scanner never collects).  [ok |-> FALSE] is Err(ParseFloatError).
parse_f64(s) ==
    LET signed == s /= <<>> /\ Head(s) \in {Ord("+"), Ord("-")}
    IN  The({ The({ The({ IF m.len = 0 \/ ~x.ok THEN [ok |-> FALSE]
                          ELSE [ok |-> TRUE,
                                num |-> DecimalToF64(signed /\ Head(s) = Ord("-"),
                                                     m.int, m.frac, x.e)]
                          : x \in {ExponentOf(SubSeq(b, m.len + 1, Len(b)))} })
                    : m \in {MantissaOf(b)} })
              : b \in {IF signed THEN Tail(s) ELSE s} })

\* NumToString without the zeros that follow the mantissa of a whole number.
NumToString_mantissa(n) ==
    IF n.cls = "inf" THEN (IF n.neg THEN <<Ord("-")>> ELSE <<>>) \o Txt(<<"i", "n", "f">>)
    ELSE (IF n.neg THEN <<Ord("-")>> ELSE <<>>) \o n.mant

\* f64's Display (to_string): the shortest text that reads back as the same
\* float, in positional notation, never with an exponent; "-0" for negative zero.
NumToString(n) ==
    LET sign == IF n.neg THEN <<Ord("-")>> ELSE <<>>
    IN  IF n.cls = "inf" THEN sign \o Txt(<<"i", "n", "f">>)
        ELSE LET d == n.mant
                 k == Len(d) + n.exp            \* digits before the decimal point
             IN  IF n.exp >= 0 THEN sign \o d \o Repeat(<<Ord("0")>>, n.exp)
                 ELSE IF k > 0 THEN sign \o SubSeq(d, 1, k) \o <<Ord(".")>> \o SubSeq(d, k + 1, Len(d))
                 ELSE sign \o Txt(<<"0", ".">>) \o Repeat(<<Ord("0")>>, -k) \o d

(***************************************************************************)
(* tokenize_number                                                         *)
(***************************************************************************)
RECURSIVE number_loop(_, _)
\* number_loop without '+' among the characters of a run.
number_loop_no_plus(cs, number_chars) ==
    IF cs = <<>> \/ Head(cs) \notin NumberChars \ {Ord("+")}
    THEN [run |-> number_chars, rest |-> cs]
    ELSE number_loop(Tail(cs), Append(number_chars, Head(cs)))

number_loop(cs, number_chars) ==
    IF cs = <<>> \/ Head(cs) \notin NumberChars
    THEN [run |-> number_chars, rest |-> cs]
    ELSE number_loop(Tail(cs), Append(number_chars, Head(cs)))

tokenize_number(cs) ==
    The({ The({ IF n.ok THEN ScanOk(NumberToken(n.num), r.rest)
                ELSE ScanErr(InvalidNumberLiteral(r.run), r.rest)
                : n \in {parse_f64(r.run)} })
          : r \in {number_loop(cs, <<>>)} })

(***************************************************************************)
(* tokenize: one iteration of the main scan loop, and the loop             *)
(***************************************************************************)
PunctuationToken(c) ==
    CASE c = Ord("[") -> LeftSquareBracket [] c = Ord("{") -> LeftCurlyBracket
      [] c = Ord("]") -> RightSquareBracket [] c = Ord("}") -> RightCurlyBracket
      [] c = Ord(":") -> Colon [] c = Ord(",") -> Comma

\* The sub-scanner the match on the peeked character dispatches to.
scan_token(cs) ==
    LET char == Head(cs)
    IN  IF char \in Structural THEN ScanOk(PunctuationToken(char), Tail(cs))
        ELSE IF char = QUOTE THEN tokenize_string(cs)
        ELSE IF char = Ord("-") \/ char \in Digits THEN tokenize_number(cs)
        ELSE tokenize_literal(cs)

TokenizeOk(ts) == [st |-> "Ok", tokens |-> ts]
TokenizeErr(e) == [st |-> "Err", err |-> e]
TokenizePanic == [st |-> "Panic"]
NotYet == [st |-> "None"]

RECURSIVE tokenize_loop(_, _)
tokenize_loop(cs, ts) ==
    IF cs = <<>> THEN TokenizeOk(ts)
    ELSE IF Head(cs) \in Whitespace THEN tokenize_loop(Tail(cs), ts)
    ELSE LET r == scan_token(cs)
         IN  IF r.st = "Ok" THEN tokenize_loop(r.rest, Append(ts, r.token))
             ELSE IF r.st = "Err" THEN TokenizeErr(r.err)
             ELSE TokenizePanic

tokenize(text) == tokenize_loop(text, <<>>)

(***************************************************************************)
(* JsonValue and the parser                                                *)
(***************************************************************************)
JsonNull == [k |-> "Null"]
JsonBool(b) == [k |-> "Bool", bool |-> b]
JsonNumber(n) == [k |-> "Number", num |-> n]
JsonString(s) == [k |-> "String", text |-> s]
JsonArray(items) == [k |-> "Array", items |-> items]
JsonObject(entries) == [k |-> "Object", entries |-> entries]   \* a sequence of <<key, value>>

UnexpectedToken(t) == [kind |-> "UnexpectedToken", token |-> t]
ParserEndOfInput == [kind |-> "UnexpectedEndOfInput"]

\* A parse function's Result, with the cursor after the tokens it consumed.
ParseOk(v, pos) == [ok |-> TRUE, val |-> v, pos |-> pos]
ParseErr(e) == [ok |-> FALSE, err |-> e, here |-> FALSE]
\* The error of parser_object's loop, which prints "here????" before it returns.
ParseErrHere(e) == [ok |-> FALSE, err |-> e, here |-> TRUE]

RECURSIVE parser_value(_, _)
RECURSIVE parser_array(_, _)
RECURSIVE array_loop(_, _, _)
RECURSIVE parser_object(_, _)
RECURSIVE object_loop(_, _, _)
RECURSIVE parser_object_key_value(_, _)

\* ts is the token sequence, pos the index of the token peek() would return.
parser_value(ts, pos) ==
    IF pos > Len(ts) THEN ParseErr(ParserEndOfInput)
    ELSE LET token == ts[pos]
         IN  CASE token.type = "Null" -> ParseOk(JsonNull, pos + 1)
               [] token.type = "True" -> ParseOk(JsonBool(TRUE), pos + 1)
               [] token.type = "False" -> ParseOk(JsonBool(FALSE), pos + 1)
               [] token.type = "Number" -> ParseOk(JsonNumber(token.num), pos + 1)
               [] token.type = "String" -> ParseOk(JsonString(token.text), pos + 1)
               [] token.type = "LeftSquareBracket" -> parser_array(ts, pos)
               [] token.type = "LeftCurlyBracket" -> parser_object(ts, pos)
               [] OTHER -> ParseErr(UnexpectedToken(token))

\* parser_object_key_value reporting the token found in the colon's place.
parser_object_key_value_token(ts, pos) ==
    IF pos > Len(ts) THEN ParseErr(ParserEndOfInput)
    ELSE IF ts[pos].type /= "String" THEN ParseErr(UnexpectedToken(ts[pos]))
    ELSE IF pos + 1 > Len(ts) THEN ParseErr(ParserEndOfInput)
    ELSE IF ts[pos + 1] /= Colon THEN ParseErr(UnexpectedToken(ts[pos + 1]))
    ELSE LET v == parser_value(ts, pos + 2)
         IN  IF v.ok THEN ParseOk(<<ts[pos].text, v.val>>, v.pos) ELSE v

parser_object_key_value(ts, pos) ==
    IF pos > Len(ts) THEN ParseErr(ParserEndOfInput)
    ELSE IF ts[pos].type /= "String" THEN ParseErr(UnexpectedToken(ts[pos]))
    ELSE IF pos + 1 > Len(ts) \/ ts[pos + 1] /= Colon THEN ParseErr(ParserEndOfInput)
    ELSE LET v == parser_value(ts, pos + 2)
         IN  IF v.ok THEN ParseOk(<<ts[pos].text, v.val>>, v.pos) ELSE v

\* object_loop with a member of an equal key replaced instead of kept.
object_loop_lastwins(ts, pos, object) ==
    IF pos > Len(ts) THEN ParseErr(ParserEndOfInput)
    ELSE LET token == ts[pos]
         IN  IF token = Comma
             THEN IF pos + 1 > Len(ts) THEN object_loop(ts, pos + 1, object)
                  ELSE IF ts[pos + 1].type /= "String" THEN ParseErr(UnexpectedToken(ts[pos + 1]))
                  ELSE LET kv == parser_object_key_value(ts, pos + 1)
                           same == {i \in 1..Len(object) : object[i][1] = kv.val[1]}
                       IN  IF ~kv.ok THEN kv
                           ELSE IF same = {} THEN object_loop(ts, kv.pos, Append(object, kv.val))
                           ELSE object_loop(ts, kv.pos,
                                            [i \in 1..Len(object) |->
                                                IF i \in same THEN kv.val ELSE object[i]])
             ELSE IF token = RightCurlyBracket THEN ParseOk(JsonObject(object), pos + 1)
             ELSE ParseErrHere(UnexpectedToken(token))

\* object_loop with a comma before the closing bracket accepted.
object_loop_trailing(ts, pos, object) ==
    IF pos > Len(ts) THEN ParseErr(ParserEndOfInput)
    ELSE LET token == ts[pos]
         IN  IF token = Comma
             THEN IF pos + 1 > Len(ts) THEN object_loop(ts, pos + 1, object)
                  ELSE IF ts[pos + 1] = RightCurlyBracket THEN object_loop(ts, pos + 1, object)
                  ELSE IF ts[pos + 1].type /= "String" THEN ParseErr(UnexpectedToken(ts[pos + 1]))
                  ELSE LET kv == parser_object_key_value(ts, pos + 1)
                       IN  IF kv.ok THEN object_loop(ts, kv.pos, Append(object, kv.val)) ELSE kv
             ELSE IF token = RightCurlyBracket THEN ParseOk(JsonObject(object), pos + 1)
             ELSE ParseErrHere(UnexpectedToken(token))

\* object_loop returning the members read so far when the tokens run out.
object_loop_partial(ts, pos, object) ==
    IF pos > Len(ts) THEN ParseOk(JsonObject(object), pos)
    ELSE LET token == ts[pos]
         IN  IF token = Comma
             THEN IF pos + 1 > Len(ts) THEN object_loop(ts, pos + 1, object)
                  ELSE IF ts[pos + 1].type /= "String" THEN ParseErr(UnexpectedToken(ts[pos + 1]))
                  ELSE LET kv == parser_object_key_value(ts, pos + 1)
                       IN  IF kv.ok THEN object_loop(ts, kv.pos, Append(object, kv.val)) ELSE kv
             ELSE IF token = RightCurlyBracket THEN ParseOk(JsonObject(object), pos + 1)
             ELSE ParseErrHere(UnexpectedToken(token))

\* The while loop of parser_object, object being the members pushed so far.
object_loop(ts, pos, object) ==
    IF pos > Len(ts) THEN ParseErr(ParserEndOfInput)
    ELSE LET token == ts[pos]
         IN  IF token = Comma
             THEN IF pos + 1 > Len(ts) THEN object_loop(ts, pos + 1, object)
                  ELSE IF ts[pos + 1].type /= "String" THEN ParseErr(UnexpectedToken(ts[pos + 1]))
                  ELSE LET kv == parser_object_key_value(ts, pos + 1)
                       IN  IF kv.ok THEN object_loop(ts, kv.pos, Append(object, kv.val)) ELSE kv
             ELSE IF token = RightCurlyBracket THEN ParseOk(JsonObject(object), pos + 1)
             ELSE ParseErrHere(UnexpectedToken(token))

parser_object(ts, pos) ==
    IF pos + 1 > Len(ts) THEN object_loop(ts, pos + 1, <<>>)
    ELSE LET token == ts[pos + 1]
         IN  IF token = RightCurlyBracket THEN ParseOk(JsonObject(<<>>), pos + 2)
             ELSE IF token.type /= "String" THEN ParseErr(UnexpectedToken(token))
             ELSE LET kv == parser_object_key_value(ts, pos + 1)
                  IN  IF kv.ok THEN object_loop(ts, kv.pos, <<kv.val>>) ELSE kv

\* array_loop with a comma before the closing bracket accepted.
array_loop_trailing(ts, pos, array) ==
    IF pos > Len(ts) THEN ParseErr(ParserEndOfInput)
    ELSE LET token == ts[pos]
         IN  IF token = Comma
             THEN IF pos + 1 <= Len(ts) /\ ts[pos + 1] = RightSquareBracket
                  THEN ParseOk(JsonArray(array), pos + 2)
                  ELSE LET v == parser_value(ts, pos + 1)
                       IN  IF v.ok THEN array_loop(ts, v.pos, Append(array, v.val)) ELSE v
             ELSE IF token = RightSquareBracket THEN ParseOk(JsonArray(array), pos + 1)
             ELSE ParseErr(UnexpectedToken(token))

\* The while loop of parser_array, array being the values pushed so far.
array_loop(ts, pos, array) ==
    IF pos > Len(ts) THEN ParseErr(ParserEndOfInput)
    ELSE LET token == ts[pos]
         IN  IF token = Comma
             THEN LET v == parser_value(ts, pos + 1)
                  IN  IF v.ok THEN array_loop(ts, v.pos, Append(array, v.val)) ELSE v
             ELSE IF token = RightSquareBracket THEN ParseOk(JsonArray(array), pos + 1)
             ELSE ParseErr(UnexpectedToken(token))

parser_array(ts, pos) ==
    IF pos + 1 > Len(ts) THEN array_loop(ts, pos + 1, <<>>)
    ELSE IF ts[pos + 1] = RightSquareBracket THEN ParseOk(JsonArray(<<>>), pos + 2)
    ELSE LET v == parser_value(ts, pos + 1)
         IN  IF v.ok THEN array_loop(ts, v.pos, <<v.val>>) ELSE v

parser(ts) == parser_value(ts, 1)

(***************************************************************************)
(* The formatter                                                           *)
(***************************************************************************)
\* A format function returns its text, or aborts: panic!("Expected ...") when the
\* value is not of the variant the function is for, and the usize subtraction
\* indent_level - 1 below zero.  panic is the set of messages the abort can
\* carry, one for each way the program can be built.
FormatOk(t) == [ok |-> TRUE, text |-> t]
FormatPanic(messages) == [ok |-> FALSE, panic |-> messages]

\* indent_level - 1 with indent_level = 0: a build with overflow checks aborts at
\* the subtraction; a build without them wraps to usize::MAX and aborts in
\* "  ".repeat.
SubtractOverflow == {"attempt to subtract with overflow", "capacity overflow"}

INDENT == Txt(<<" ", " ">>)

\* [String]::join(",\n")
RECURSIVE Join(_)
Join(lines) ==
    IF lines = <<>> THEN <<>>
    ELSE IF Len(lines) = 1 THEN lines[1]
    ELSE lines[1] \o Txt(<<",", "\n">>) \o Join(Tail(lines))

RECURSIVE format_value(_, _)
RECURSIVE format_object(_, _)
RECURSIVE format_array(_, _)

\* Container with the closing bracket indented like the children.
Container_deep(open, close, children, prefix, indent_level) ==
    FormatOk(<<open, Ord("\n")>>
             \o Join([i \in 1..Len(children) |->
                         Repeat(INDENT, indent_level) \o prefix[i] \o children[i].text])
             \o <<Ord("\n")>> \o Repeat(INDENT, indent_level) \o <<close>>)

\* "{open}\n{body}\n{indent}{close}" around the joined lines of the children; a
\* child that aborts aborts the whole call (the first one, in iteration order).
Container(open, close, children, prefix, indent_level) ==
    LET bad == {i \in 1..Len(children) : ~children[i].ok}
        first == CHOOSE i \in bad : \A j \in bad : i <= j
        lines == [i \in 1..Len(children) |->
                     Repeat(INDENT, indent_level) \o prefix[i] \o children[i].text]
    IN  IF bad /= {} THEN children[first]
        ELSE IF indent_level - 1 < 0 THEN FormatPanic(SubtractOverflow)
        ELSE FormatOk(<<open, Ord("\n")>> \o Join(lines) \o <<Ord("\n")>>
                      \o Repeat(INDENT, indent_level - 1) \o <<close>>)

format_object(v, indent_level) ==
    IF v.k /= "Object" THEN FormatPanic({"Expected object"})
    ELSE IF Len(v.entries) = 0 THEN FormatOk(Txt(<<"{", "}">>))
    ELSE Container(Ord("{"), Ord("}"),
                   [i \in 1..Len(v.entries) |-> format_value(v.entries[i][2], indent_level + 1)],
                   [i \in 1..Len(v.entries) |->
                       <<QUOTE>> \o v.entries[i][1] \o <<QUOTE, Ord(":"), Ord(" ")>>],
                   indent_level)

\* format_array without the case of the empty array.
format_array_always_lines(v, indent_level) ==
    Container(Ord("["), Ord("]"),
              [i \in 1..Len(v.items) |-> format_value(v.items[i], indent_level + 1)],
              [i \in 1..Len(v.items) |-> <<>>],
              indent_level)

format_array(v, indent_level) ==
    IF v.k /= "Array" THEN FormatPanic({"Expected array"})
    ELSE IF Len(v.items) = 0 THEN FormatOk(Txt(<<"[", "]">>))
    ELSE Container(Ord("["), Ord("]"),
                   [i \in 1..Len(v.items) |-> format_value(v.items[i], indent_level + 1)],
                   [i \in 1..Len(v.items) |-> <<>>],
                   indent_level)

format_value(v, indent_level) ==
    CASE v.k = "Null" -> FormatOk(Txt(<<"n", "u", "l", "l">>))
      [] v.k = "Bool" -> FormatOk(IF v.bool THEN Txt(<<"t", "r", "u", "e">>)
                                  ELSE Txt(<<"f", "a", "l", "s", "e">>))
      [] v.k = "Number" -> FormatOk(NumToString(v.num))
      [] v.k = "String" -> FormatOk(<<QUOTE>> \o v.text \o <<QUOTE>>)
      [] v.k = "Object" -> format_object(v, indent_level)
      [] v.k = "Array" -> format_array(v, indent_level)

\* format starting the recursion at indent level 0.
format_from_zero(v) == format_value(v, 0)

format(v) == format_value(v, 1)

\* The line parser_object prints to stdout before the UnexpectedToken of its loop.
Here == Txt(<<"h", "e", "r", "e", "?", "?", "?", "?">>)

\* format_json: the text returned, the lines written to stdout and the diagnostic
\* written to stderr before exit(1), or an abort.
Returns(text) == [st |-> "Ok", text |-> text]
Exits(diagnostic, printed) == [st |-> "Exit", stderr |-> diagnostic, stdout |-> printed]
Aborts == [st |-> "Panic"]

\* JsonToken's Display, used in the parser's diagnostics.
TokenDisplay(t) ==
    CASE t.type = "LeftSquareBracket" -> Txt(<<"[">>)
      [] t.type = "LeftCurlyBracket" -> Txt(<<"{">>)
      [] t.type = "RightSquareBracket" -> Txt(<<"]">>)
      [] t.type = "RightCurlyBracket" -> Txt(<<"}">>)
      [] t.type = "Colon" -> Txt(<<":">>)
      [] t.type = "Comma" -> Txt(<<",">>)
      [] t.type = "True" -> Txt(<<"t", "r", "u", "e">>)
      [] t.type = "False" -> Txt(<<"f", "a", "l", "s", "e">>)
      [] t.type = "Null" -> Txt(<<"n", "u", "l", "l">>)
      [] t.type = "String" -> <<QUOTE>> \o t.text \o <<QUOTE>>
      [] t.type = "Number" -> NumToString(t.num)

\* The line the pipeline writes to stderr for an error: the message up to the
\* opening quote, and the text shown between the quotes.
Diagnostic(message, shown) == [message |-> message, shown |-> shown]

TokenizeDiagnostic(e) ==
    CASE e.kind = "InvalidEscapeCharacter" -> Diagnostic("Invalid escape character", e.escape)
      [] e.kind = "InvalidNumberLiteral" -> Diagnostic("Invalid number literal", e.literal)
      [] e.kind = "UnexpectedCharacter" -> Diagnostic("Unexpected character", <<e.char>>)
      [] e.kind = "UnexpectedEndOfInput" -> Diagnostic("Unexpected end of input", <<>>)
      [] e.kind = "UnexpectedLiteral" -> Diagnostic("Unexpected literal", e.literal)

ParserDiagnostic(e) ==
    CASE e.kind = "UnexpectedEndOfInput" -> Diagnostic("Unexpected end of input", <<>>)
      [] e.kind = "UnexpectedToken" -> Diagnostic("Unexpected token", TokenDisplay(e.token))

format_json(content) ==
    LET t == tokenize(content)
    IN  IF t.st = "Panic" THEN Aborts
        ELSE IF t.st = "Err" THEN Exits(TokenizeDiagnostic(t.err), <<>>)
        ELSE LET p == parser(t.tokens)
             IN  IF ~p.ok THEN Exits(ParserDiagnostic(p.err), IF p.here THEN <<Here>> ELSE <<>>)
                 ELSE LET f == format(p.val)
                      IN  IF f.ok THEN Returns(f.text) ELSE Aborts

(***************************************************************************)
(* Bounds and the inputs of the specifications                             *)
(***************************************************************************)
MaxStructPieces == 4
MaxStringPieces == 5
MaxNumberChars == 5
MaxTokens == 4
MaxNodes == 4
MaxLiteralPieces == 3
MaxBlankPieces == 3
MaxLivePieces == 3

SeqsUpTo(S, n) == UNION {[1..k -> S] : k \in 0..n}

RECURSIVE Flatten(_)
Flatten(ss) == IF ss = <<>> THEN <<>> ELSE Head(ss) \o Flatten(Tail(ss))

\* Texts of structure: punctuation, a blank, and one lexeme of each other kind.
StructPieces ==
    {Txt(<<"[">>), Txt(<<"]">>), Txt(<<"{">>), Txt(<<"}">>), Txt(<<":">>), Txt(<<",">>),
     Txt(<<" ">>), Txt(<<"1">>), Txt(<<"\"", "a", "\"">>), Txt(<<"n", "u", "l", "l">>)}

\* What follows an opening double quote: quotes, escapes, hexadecimal digits
\* (DDDD is a surrogate), a letter that is no digit, a sign, a two-byte character.
StringPieces ==
    {Txt(<<"\"">>), Txt(<<"\\">>), Txt(<<"\\", "u">>), Txt(<<"0">>), Txt(<<"D">>),
     Txt(<<"g">>), Txt(<<"+">>), Txt(<<"e'">>)}

\* Barewords and what may stand around them.
LiteralPieces ==
    {Txt(<<"t", "r", "u", "e">>), Txt(<<"f", "a", "l", "s", "e">>), Txt(<<"n", "u", "l", "l">>),
     Txt(<<"n", "u", "l">>), Txt(<<"l">>), Txt(<<"T", "r", "u", "e">>), Txt(<<"\"">>),
     Txt(<<"1">>), Txt(<<"-">>), Txt(<<" ">>), Txt(<<",">>)}

\* Pieces of every kind of lexical unit: punctuation, a blank, a digit, a sign,
\* a keyword, a letter, a double quote, a backslash, a \u escape that is not
\* hexadecimal.
LivePieces ==
    {Txt(<<"[">>), Txt(<<"]">>), Txt(<<"{">>), Txt(<<"}">>), Txt(<<":">>), Txt(<<",">>),
     Txt(<<" ">>), Txt(<<"1">>), Txt(<<"-">>), Txt(<<"n", "u", "l", "l">>),
     Txt(<<"a">>), Txt(<<"\"">>), Txt(<<"\\">>),
     Txt(<<"\\", "u", "0", "0", "0", "g">>)}

\* The characters of number runs, and a comma that ends a run.
NumberAlphabet == {Ord("0"), Ord("1"), Ord("9"), Ord("-"), Ord("+"), Ord("."), Ord("e"), Ord(",")}

TokenAlphabet ==
    {LeftSquareBracket, RightSquareBracket, LeftCurlyBracket, RightCurlyBracket, Colon,
     Comma, NullToken, StringToken(Txt(<<"a">>)), NumberToken(Finite(FALSE, Txt(<<"1">>), 0))}

\* Value trees of at most MaxNodes nodes.  The leaves hold a string with a double
\* quote beside the plain ones; so do the keys.
Leaves ==
    {JsonNull, JsonBool(TRUE), JsonArray(<<>>), JsonObject(<<>>),
     JsonNumber(Finite(TRUE, Txt(<<"1", "2">>), 1)), JsonString(Txt(<<"a">>)), JsonString(Txt(<<"a", "\"">>))}

Keys == {Txt(<<"a">>), Txt(<<"b", "\"">>)}

\* The leaves of the trees whose tokens the parser is given.
TokenLeaves ==
    {JsonBool(FALSE), JsonArray(<<>>), JsonObject(<<>>), JsonNumber(Finite(TRUE, Txt(<<"1", "2">>), 1)),
     JsonString(Txt(<<"a">>))}

\* A tree's shape: a leaf, or an array or an object of at least one child.
LeafShape == [k |-> "Leaf", c |-> <<>>]
Cons(T, F) == {<<t>> \o f : t \in T, f \in F}
Over(F) == {[k |-> "Array", c |-> f] : f \in F} \cup {[k |-> "Object", c |-> f] : f \in F}

\* ShapesN: the shapes of N nodes; ForestsN: the sequences of shapes of N nodes
\* in all.  The table is written out to five nodes.
Shapes1 == {LeafShape}
Forests1 == Cons(Shapes1, {<<>>})
Shapes2 == Over(Forests1)
Forests2 == Cons(Shapes2, {<<>>}) \cup Cons(Shapes1, Forests1)
Shapes3 == Over(Forests2)
Forests3 == Cons(Shapes3, {<<>>}) \cup Cons(Shapes2, Forests1) \cup Cons(Shapes1, Forests2)
Shapes4 == Over(Forests3)
Forests4 ==
    Cons(Shapes4, {<<>>}) \cup Cons(Shapes3, Forests1) \cup Cons(Shapes2, Forests2)
    \cup Cons(Shapes1, Forests3)
Shapes5 == Over(Forests4)
ShapeTable == <<Shapes1, Shapes2, Shapes3, Shapes4, Shapes5>>
ShapesUpTo(n) == UNION {ShapeTable[s] : s \in 1..(IF n < 5 THEN n ELSE 5)}

RECURSIVE LeafCount(_)
RECURSIVE KeyCount(_)
RECURSIVE Sum(_)
Sum(ns) == IF ns = <<>> THEN 0 ELSE Head(ns) + Sum(Tail(ns))
LeafCount(sh) ==
    IF sh.k = "Leaf" THEN 1 ELSE Sum([i \in 1..Len(sh.c) |-> LeafCount(sh.c[i])])
KeyCount(sh) ==
    (IF sh.k = "Object" THEN Len(sh.c) ELSE 0) + Sum([i \in 1..Len(sh.c) |-> KeyCount(sh.c[i])])

\* The tree of shape sh whose leaves are the first of ls and whose keys are the
\* first of ks, in reading order, with the leaves and keys left over.
RECURSIVE Fill(_, _, _)
RECURSIVE FillList(_, _, _, _)
Fill(sh, ls, ks) ==
    IF sh.k = "Leaf" THEN [v |-> Head(ls), ls |-> Tail(ls), ks |-> ks]
    ELSE LET r == FillList(sh.c, ls, ks, sh.k = "Object")
         IN  [v |-> IF sh.k = "Array" THEN JsonArray(r.items) ELSE JsonObject(r.items),
              ls |-> r.ls, ks |-> r.ks]

FillList(shs, ls, ks, keyed) ==
    IF shs = <<>> THEN [items |-> <<>>, ls |-> ls, ks |-> ks]
    ELSE LET first == Fill(Head(shs), ls, IF keyed THEN Tail(ks) ELSE ks)
             rest == FillList(Tail(shs), first.ls, first.ks, keyed)
         IN  [items |-> <<IF keyed THEN <<Head(ks), first.v>> ELSE first.v>> \o rest.items,
              ls |-> rest.ls, ks |-> rest.ks]

NoValue == [k |-> "None"]

\* The token sequence of a value tree, by the grammar
\*   array := '[' (value (',' value)*)? ']'    object := '{' (member (',' member)*)? '}'
RECURSIVE Encode(_)
RECURSIVE EncodeList(_, _)
EncodeList(parts, i) ==
    IF i > Len(parts) THEN <<>>
    ELSE (IF i > 1 THEN <<Comma>> ELSE <<>>) \o parts[i] \o EncodeList(parts, i + 1)

Encode(v) ==
    CASE v.k = "Null" -> <<NullToken>>
      [] v.k = "Bool" -> <<IF v.bool THEN TrueToken ELSE FalseToken>>
      [] v.k = "Number" -> <<NumberToken(v.num)>>
      [] v.k = "String" -> <<StringToken(v.text)>>
      [] v.k = "Array" ->
            <<LeftSquareBracket>>
            \o EncodeList([i \in 1..Len(v.items) |-> Encode(v.items[i])], 1)
            \o <<RightSquareBracket>>
      [] v.k = "Object" ->
            <<LeftCurlyBracket>>
            \o EncodeList([i \in 1..Len(v.entries) |->
                              <<StringToken(v.entries[i][1]), Colon>> \o Encode(v.entries[i][2])], 1)
            \o <<RightCurlyBracket>>

\* The token sequences the parser stops in: a proper prefix of a tree's token
\* sequence, alone or followed by one more token.
Interrupted(ts) ==
    UNION {{SubSeq(ts, 1, k)} \cup {Append(SubSeq(ts, 1, k), t) : t \in TokenAlphabet} :
               k \in 0..(Len(ts) - 1)}

(***************************************************************************)
(* The pipeline: tokenize, then parser, then format (main, format_json)    *)
(***************************************************************************)
NoDiagnostic == Diagnostic("", <<>>)

Start(v, text, cs, ts, tz, stage) ==
    /\ value = v /\ input = text /\ chars = cs /\ tokens = ts /\ tokenized = tz
    /\ parsed = NotYet /\ output = NotYet /\ stdout = <<>> /\ stderr = NoDiagnostic
    /\ pc = stage

\* The pipeline is given a text.
Given(text) == Start(NoValue, text, text, <<>>, NotYet, "tokenize")

Init ==
    \/ \E p \in SeqsUpTo(StructPieces, MaxStructPieces) : Given(Flatten(p))
    \/ \E p \in SeqsUpTo(StringPieces, MaxStringPieces) : Given(<<QUOTE>> \o Flatten(p))
    \/ \E text \in SeqsUpTo(NumberAlphabet, MaxNumberChars) : Given(text)
    \/ \E p \in SeqsUpTo(LiteralPieces, MaxLiteralPieces) : Given(Flatten(p))

\* The start of an object with one member, after which parser_object's loop
\* expects a comma or the closing bracket.
OpenObject == Txt(<<"{", "\"", "a", "\"", ":", "1">>)

\* Short texts of structure, to be compared with the same texts with more
\* whitespace; some go on from an open object.
InitBlank ==
    \/ \E p \in SeqsUpTo(StructPieces, MaxBlankPieces) : Given(Flatten(p))
    \/ \E p \in SeqsUpTo(StructPieces, MaxBlankPieces - 1) : Given(OpenObject \o Flatten(p))

LiveTexts ==
    {Flatten(p) : p \in SeqsUpTo(LivePieces, MaxLivePieces)}
        \cup {OpenObject \o Flatten(p) : p \in SeqsUpTo(LivePieces, MaxLivePieces - 2)}

\* The names a file is given by on the command line.
FileNames == {Txt(<<"a">>), Txt(<<"a", "/", "b">>)}

\* The kinds of error fs::read_to_string returns: the two main names, and two
\* of the others (a file that is not UTF-8, a path that is a directory).
ReadErrorKinds == {"NotFound", "PermissionDenied", "InvalidData", "IsADirectory"}

\* The line main writes to stderr for an error of fs::read_to_string; the last
\* form ends with the error's own text, kept here as its kind.
ReadDiagnostic(kind, filename) ==
    CASE kind = "NotFound" -> Diagnostic("No such file or directory", filename)
      [] kind = "PermissionDenied" -> Diagnostic("Permission denied", filename)
      [] OTHER -> [message |-> "Error reading file", shown |-> filename, error |-> kind]

\* The process has started: main has not looked at its arguments yet.
InitLive == Start(NoValue, <<>>, <<>>, <<>>, NotYet, "args")

\* The parser is given a token sequence: any short one, that of a value tree, or
\* one cut short in a value tree's.
InitParse ==
    \/ \E ts \in SeqsUpTo(TokenAlphabet, MaxTokens) :
           Start(NoValue, <<>>, <<>>, ts, TokenizeOk(ts), "parse")
    \/ \E sh \in ShapesUpTo(MaxNodes) :
           \E ls \in [1..LeafCount(sh) -> TokenLeaves], ks \in [1..KeyCount(sh) -> Keys] :
               LET v == Fill(sh, ls, ks).v
               IN  Start(v, <<>>, <<>>, Encode(v), TokenizeOk(Encode(v)), "parse")
    \/ \E sh \in ShapesUpTo(MaxNodes - 1) :
           \E ls \in [1..LeafCount(sh) -> TokenLeaves], ks \in [1..KeyCount(sh) -> Keys] :
               \E ts \in Interrupted(Encode(Fill(sh, ls, ks).v)) :
                   Start(NoValue, <<>>, <<>>, ts, TokenizeOk(ts), "parse")

\* A round trip starts from a value tree, formats it and runs the pipeline on the text.
InitRound ==
    \E sh \in ShapesUpTo(MaxNodes) :
        \E ls \in [1..LeafCount(sh) -> Leaves], ks \in [1..KeyCount(sh) -> Keys] :
            Start(Fill(sh, ls, ks).v, <<>>, <<>>, <<>>, NotYet, "render")

\* format(value) gives the text the pipeline is run on.
FormatValue ==
    /\ pc = "render"
    /\ LET f == format(value)
       IN  /\ f.ok
           /\ input' = f.text
           /\ chars' = f.text
    /\ pc' = "tokenize"
    /\ UNCHANGED <<value, tokens, tokenized, parsed, output, stdout, stderr>>

\* args.next() twice: the file name, or "No filename provided" and exit(1), or
\* the abort of env::args() on an argument that is not Unicode, the program's
\* own name or the file name.
Arguments ==
    /\ pc = "args"
    /\ \/ pc' = "read" /\ stderr' = stderr
       \/ pc' = "exit" /\ stderr' = Diagnostic("No filename provided", <<>>)
       \/ pc' = "panic" /\ stderr' = stderr
    /\ UNCHANGED <<value, input, chars, tokens, tokenized, parsed, output, stdout>>

\* fs::read_to_string gives the content: a short text of every kind of lexical unit.
ReadContent ==
    /\ pc = "read"
    /\ input' \in LiveTexts
    /\ chars' = input'
    /\ pc' = "tokenize"
    /\ UNCHANGED <<value, tokens, tokenized, parsed, output, stdout, stderr>>

\* fs::read_to_string gives an error: its line on stderr, then exit(1).
ReadError ==
    /\ pc = "read"
    /\ \E kind \in ReadErrorKinds, filename \in FileNames :
           stderr' = ReadDiagnostic(kind, filename)
    /\ pc' = "exit"
    /\ UNCHANGED <<value, input, chars, tokens, tokenized, parsed, output, stdout>>

\* ' ' | '\n' | '\t' | '\r' => chars.next()
SkipWhitespace ==
    /\ pc = "tokenize" /\ chars /= <<>> /\ Head(chars) \in Whitespace
    /\ chars' = Tail(chars)
    /\ UNCHANGED <<value, input, tokens, tokenized, parsed, output, stdout, stderr, pc>>

\* Scanned handing the tokens scanned before an error to the parser.
Scanned_parses_prefix(r) ==
    /\ chars' = r.rest
    /\ CASE r.st = "Ok" ->
              /\ tokens' = Append(tokens, r.token)
              /\ UNCHANGED <<tokenized, stderr, pc>>
         [] r.st = "Err" ->
              /\ tokenized' = TokenizeOk(tokens)
              /\ pc' = "parse"
              /\ UNCHANGED <<tokens, stderr>>
         [] r.st = "Panic" ->
              /\ tokenized' = TokenizePanic
              /\ pc' = "panic"
              /\ UNCHANGED <<tokens, stderr>>
    /\ UNCHANGED <<value, input, parsed, output, stdout>>

\* Scanned going on behind a unit in error instead of returning the error.
Scanned_skips(r) ==
    /\ chars' = r.rest
    /\ CASE r.st = "Ok" ->
              /\ tokens' = Append(tokens, r.token)
              /\ UNCHANGED <<tokenized, stderr, pc>>
         [] r.st = "Err" ->
              /\ UNCHANGED <<tokens, tokenized, stderr, pc>>
         [] r.st = "Panic" ->
              /\ tokenized' = TokenizePanic
              /\ pc' = "panic"
              /\ UNCHANGED <<tokens, stderr>>
    /\ UNCHANGED <<value, input, parsed, output, stdout>>

\* What the loop does with a sub-scanner's result r: push the token and go on,
\* return the error (the caller prints it and exits), or abort.
Scanned(r) ==
    /\ chars' = r.rest
    /\ CASE r.st = "Ok" ->
              /\ tokens' = Append(tokens, r.token)
              /\ UNCHANGED <<tokenized, stderr, pc>>
         [] r.st = "Err" ->
              /\ tokenized' = TokenizeErr(r.err)
              /\ stderr' = TokenizeDiagnostic(r.err)
              /\ pc' = "exit"
              /\ UNCHANGED tokens
         [] r.st = "Panic" ->
              /\ tokenized' = TokenizePanic
              /\ pc' = "panic"
              /\ UNCHANGED <<tokens, stderr>>
    /\ UNCHANGED <<value, input, parsed, output, stdout>>

\* '[' | '{' | ']' | '}' | ':' | ',' => chars.next(); tokens.push(..)
Punctuation(c) ==
    /\ pc = "tokenize" /\ chars /= <<>> /\ Head(chars) = c
    /\ Scanned(scan_token(chars))

\* '"' => tokenize_string
ScanString ==
    /\ pc = "tokenize" /\ chars /= <<>> /\ Head(chars) = QUOTE
    /\ Scanned(scan_token(chars))

\* '-' | '0'..='9' => tokenize_number
ScanNumber ==
    /\ pc = "tokenize" /\ chars /= <<>> /\ (Head(chars) = Ord("-") \/ Head(chars) \in Digits)
    /\ Scanned(scan_token(chars))

\* _ => tokenize_literal
ScanLiteral ==
    /\ pc = "tokenize" /\ chars /= <<>>
    /\ Head(chars) \notin Whitespace \cup Structural \cup Digits \cup {QUOTE, Ord("-")}
    /\ Scanned(scan_token(chars))

\* The scan loop ends with the input: Ok(tokens).
TokenizeReturn ==
    /\ pc = "tokenize" /\ chars = <<>>
    /\ tokenized' = TokenizeOk(tokens)
    /\ pc' = "parse"
    /\ UNCHANGED <<value, input, chars, tokens, parsed, output, stdout, stderr>>

ParserResult(r) ==
    IF r.ok THEN [st |-> "Ok", val |-> r.val, consumed |-> r.pos - 1]
    ELSE [st |-> "Err", err |-> r.err]

\* parser(&tokens): the value goes on to format, an error is printed before exit(1).
Parse ==
    /\ pc = "parse"
    /\ LET r == parser(tokens)
       IN  /\ parsed' = ParserResult(r)
           /\ stdout' = IF ~r.ok /\ r.here
                        THEN Append(stdout, Here)
                        ELSE stdout
           /\ stderr' = IF r.ok THEN stderr ELSE ParserDiagnostic(r.err)
           /\ pc' = IF r.ok THEN "format" ELSE "exit"
    /\ UNCHANGED <<value, input, chars, tokens, tokenized, output>>

\* format(&parsed), then println!.
Format ==
    /\ pc = "format"
    /\ LET f == format(parsed.val)
       IN  /\ IF f.ok THEN output' = [st |-> "Ok", text |-> f.text]
              ELSE \E message \in f.panic : output' = [st |-> "Panic", panic |-> message]
           /\ stdout' = IF f.ok THEN Append(stdout, f.text) ELSE stdout
           /\ pc' = IF f.ok THEN "done" ELSE "panic"
    /\ UNCHANGED <<value, input, chars, tokens, tokenized, parsed, stderr>>

NextParse == Parse \/ Format

Next ==
    \/ SkipWhitespace
    \/ Punctuation(Ord("["))
    \/ Punctuation(Ord("{"))
    \/ Punctuation(Ord("]"))
    \/ Punctuation(Ord("}"))
    \/ Punctuation(Ord(":"))
    \/ Punctuation(Ord(","))
    \/ ScanString
    \/ ScanNumber
    \/ ScanLiteral
    \/ TokenizeReturn
    \/ Parse
    \/ Format

NextRound == FormatValue \/ Next
NextLive == Arguments \/ ReadContent \/ ReadError \/ Next

Spec == Init /\ [][Next]_vars
SpecParse == InitParse /\ [][NextParse]_vars
SpecRound == InitRound /\ [][NextRound]_vars
SpecBlank == InitBlank /\ [][Next]_vars
\* The process runs on its own: a step that can be taken is taken.
SpecLive == InitLive /\ [][NextLive]_vars /\ WF_vars(NextLive)

(***************************************************************************)
(* The grammar of token sequences, read token by token                     *)
(*   value  := Null | True | False | Number | String | array | object      *)
(*   array  := '[' ']' | '[' value (',' value)* ']'                        *)
(*   object := '{' '}' | '{' member (',' member)* '}'                      *)
(*   member := String ':' value                                            *)
(* Walk follows a token sequence through the grammar and stops at the      *)
(* first token the grammar has no place for, at the end of the tokens, or  *)
(* when the value is complete.  place says what the grammar expects next;  *)
(* open lists the containers not yet closed, the innermost last.           *)
(***************************************************************************)
StartsValue(t) ==
    t.type \in {"Null", "True", "False", "Number", "String",
                "LeftSquareBracket", "LeftCurlyBracket"}

AfterValue(open) ==
    IF open = <<>> THEN "done"
    ELSE IF open[Len(open)] = "Array" THEN "array_next" ELSE "object_next"

Closed(open) == SubSeq(open, 1, Len(open) - 1)

Stop(pos, place, open) == [pos |-> pos, place |-> place, open |-> open]

RECURSIVE Walk(_, _, _, _)
WalkValue(ts, pos, place, open) ==
    LET t == ts[pos]
    IN  IF t = LeftSquareBracket THEN Walk(ts, pos + 1, "array_first", Append(open, "Array"))
        ELSE IF t = LeftCurlyBracket THEN Walk(ts, pos + 1, "object_first", Append(open, "Object"))
        ELSE IF StartsValue(t) THEN Walk(ts, pos + 1, AfterValue(open), open)
        ELSE Stop(pos, place, open)

WalkClose(ts, pos, open) == Walk(ts, pos + 1, AfterValue(Closed(open)), Closed(open))

Walk(ts, pos, place, open) ==
    IF place = "done" \/ pos > Len(ts) THEN Stop(pos, place, open)
    ELSE LET t == ts[pos]
         IN  CASE place \in {"value", "array_value", "member_value"} ->
                     WalkValue(ts, pos, place, open)
               [] place = "array_first" ->
                     IF t = RightSquareBracket THEN WalkClose(ts, pos, open)
                     ELSE WalkValue(ts, pos, place, open)
               [] place = "array_next" ->
                     IF t = Comma THEN Walk(ts, pos + 1, "array_value", open)
                     ELSE IF t = RightSquareBracket THEN WalkClose(ts, pos, open)
                     ELSE Stop(pos, place, open)
               [] place = "object_first" ->
                     IF t = RightCurlyBracket THEN WalkClose(ts, pos, open)
                     ELSE IF t.type = "String" THEN Walk(ts, pos + 1, "colon", open)
                     ELSE Stop(pos, place, open)
               [] place = "object_key" ->
                     IF t.type = "String" THEN Walk(ts, pos + 1, "colon", open)
                     ELSE Stop(pos, place, open)
               [] place = "colon" ->
                     IF t = Colon THEN Walk(ts, pos + 1, "member_value", open)
                     ELSE Stop(pos, place, open)
               [] place = "object_next" ->
                     IF t = Comma THEN Walk(ts, pos + 1, "object_key", open)
                     ELSE IF t = RightCurlyBracket THEN WalkClose(ts, pos, open)
                     ELSE Stop(pos, place, open)

\* Where the grammar stops in the tokens the parser was given, and the token there.
Stopped == Walk(tokens, 1, "value", <<>>)
AtToken == Stopped.pos <= Len(tokens)
Found == tokens[Stopped.pos]
Returned == pc \in {"format", "exit", "done", "panic"}
ParserErr(e) == [st |-> "Err", err |-> e]

(***************************************************************************)
(* Claims about the parser, under SpecParse                                *)
(***************************************************************************)
\* C4: in an array, the token after a comma must start a value; any other token,
\* the closing ']' of a trailing comma among them, comes back as
\* Err(UnexpectedToken(that token)).
C4_ArrayCommaNeedsValue ==
    (Returned /\ Stopped.place = "array_value" /\ AtToken)
        => parsed = ParserErr(UnexpectedToken(Found))

\* '[' value ',' ']' has been parsed.
C4_Witness ==
    /\ Returned /\ Len(tokens) = 4
    /\ tokens[1] = LeftSquareBracket /\ StartsValue(tokens[2])
    /\ tokens[3] = Comma /\ tokens[4] = RightSquareBracket
    /\ parsed = ParserErr(UnexpectedToken(RightSquareBracket))

\* C5: the parser returns the members of an object and the elements of an array
\* in the order of their tokens, one for one, equal keys included: the tokens of a
\* value tree parse to that tree, all tokens consumed.
C5_OrderAndDuplicatesKept ==
    (Returned /\ value /= NoValue)
        => parsed = [st |-> "Ok", val |-> value, consumed |-> Len(tokens)]

\* An object of two members with the same key has been parsed.
C5_Witness ==
    /\ Returned /\ value /= NoValue /\ value.k = "Object" /\ Len(value.entries) = 2
    /\ value.entries[1][1] = value.entries[2][1]
    /\ value.entries[1][2] /= value.entries[2][2]
    /\ parsed.st = "Ok" /\ parsed.val.entries = value.entries

\* C6: where an object expects a key (after '{' unless '}' follows, and after a
\* comma) and where it expects ',' or '}' (after a member), any other token comes
\* back as Err(UnexpectedToken(that token)).
C6_ObjectKeyPosition ==
    (Returned /\ Stopped.place \in {"object_first", "object_key", "object_next"} /\ AtToken)
        => parsed = ParserErr(UnexpectedToken(Found))

\* '{' member ',' '}' has been parsed.
C6_Witness ==
    /\ Returned /\ Stopped.place = "object_key" /\ AtToken
    /\ Found = RightCurlyBracket /\ Stopped.open = <<"Object">>
    /\ parsed = ParserErr(UnexpectedToken(RightCurlyBracket))

\* C7: after an object's key, a token that is no colon, or no token at all, comes
\* back as Err(UnexpectedEndOfInput).
C7_MissingColon ==
    (Returned /\ Stopped.place = "colon") => parsed = ParserErr(ParserEndOfInput)

\* A key followed by a token other than the colon has been parsed.
C7_Witness ==
    /\ Returned /\ Stopped.place = "colon" /\ AtToken
    /\ parsed = ParserErr(ParserEndOfInput)

\* C8: when the tokens end before the value is complete (no token at all, or the
\* end inside an unclosed array or object), the parser returns
\* Err(UnexpectedEndOfInput).
C8_OutOfTokens ==
    (Returned /\ ~AtToken /\ Stopped.place /= "done")
        => parsed = ParserErr(ParserEndOfInput)

\* The tokens ended after a comma inside an object nested in an array.
C8_Witness ==
    /\ Returned /\ ~AtToken /\ Stopped.place = "object_key" /\ Len(Stopped.open) = 2
    /\ parsed = ParserErr(ParserEndOfInput)

(***************************************************************************)
(* The layout of a rendered value tree, line by line                       *)
(* A line is its depth (it starts with two spaces per level) and its text. *)
(* A leaf or an empty container is one line.  A non-empty container at     *)
(* depth d is the line that opens it, the lines of its children at depth   *)
(* d + 1, a comma closing every child but the last, and the line that      *)
(* closes it at depth d.  lead is what precedes the value on its first     *)
(* line: nothing, or a member's key, colon and space.                      *)
(***************************************************************************)
Line(depth, text) == [depth |-> depth, text |-> text]

LeafText(v) ==
    CASE v.k = "Null" -> Txt(<<"n", "u", "l", "l">>)
      [] v.k = "Bool" -> IF v.bool THEN Txt(<<"t", "r", "u", "e">>)
                         ELSE Txt(<<"f", "a", "l", "s", "e">>)
      [] v.k = "Number" -> NumToString(v.num)
      [] v.k = "String" -> <<QUOTE>> \o v.text \o <<QUOTE>>
      [] v.k = "Array" -> Txt(<<"[", "]">>)
      [] v.k = "Object" -> Txt(<<"{", "}">>)

Children(v) == IF v.k = "Array" THEN v.items ELSE IF v.k = "Object" THEN v.entries ELSE <<>>

WithComma(lines) ==
    [i \in 1..Len(lines) |->
        IF i = Len(lines) THEN Line(lines[i].depth, Append(lines[i].text, Ord(","))) ELSE lines[i]]

RECURSIVE Layout(_, _, _)
RECURSIVE LayoutChildren(_, _, _)
LayoutChildren(v, depth, i) ==
    IF i > Len(Children(v)) THEN <<>>
    ELSE LET child ==
                 IF v.k = "Array" THEN Layout(v.items[i], depth, <<>>)
                 ELSE Layout(v.entries[i][2], depth,
                             <<QUOTE>> \o v.entries[i][1] \o <<QUOTE, Ord(":"), Ord(" ")>>)
         IN  (IF i < Len(Children(v)) THEN WithComma(child) ELSE child)
             \o LayoutChildren(v, depth, i + 1)

Layout(v, depth, lead) ==
    IF Children(v) = <<>> THEN <<Line(depth, lead \o LeafText(v))>>
    ELSE <<Line(depth, Append(lead, IF v.k = "Array" THEN Ord("[") ELSE Ord("{")))>>
         \o LayoutChildren(v, depth + 1, 1)
         \o <<Line(depth, <<IF v.k = "Array" THEN Ord("]") ELSE Ord("}")>>)>>

RECURSIVE Spaces(_)
Spaces(n) == IF n = 0 THEN <<>> ELSE <<Ord(" ")>> \o Spaces(n - 1)

RECURSIVE Page(_, _)
Page(lines, i) ==
    IF i > Len(lines) THEN <<>>
    ELSE (IF i > 1 THEN <<Ord("\n")>> ELSE <<>>)
         \o Spaces(2 * lines[i].depth) \o lines[i].text \o Page(lines, i + 1)

Rendering(v) == Page(Layout(v, 0, <<>>), 1)

\* Counting in trees and texts.
RECURSIVE CountNodes(_, _)
CountNodes(v, kind) ==
    (IF v.k = kind /\ Children(v) = <<>> THEN 1 ELSE 0)
    + Sum([i \in 1..Len(Children(v)) |->
              CountNodes(IF v.k = "Array" THEN v.items[i] ELSE v.entries[i][2], kind)])

Occurrences(text, pair) ==
    Cardinality({i \in 1..(Len(text) - 1) : SubSeq(text, i, i + 1) = pair})

RECURSIVE Depth(_)
Depth(v) ==
    IF Children(v) = <<>> THEN 0
    ELSE 1 + (LET ds == {Depth(IF v.k = "Array" THEN v.items[i] ELSE v.entries[i][2]) :
                             i \in 1..Len(Children(v))}
              IN  CHOOSE d \in ds : \A e \in ds : e <= d)

\* No double quote, backslash or control character.
PlainText(s) == \A i \in 1..Len(s) : s[i] >= 32 /\ s[i] /= 127 /\ s[i] \notin {QUOTE, BACKSLASH}

\* An integer of at most nine digits: f64 holds it exactly and Display prints it in full.
PlainNumber(n) == n.cls = "finite" /\ n.exp >= 0 /\ Len(n.mant) + n.exp <= 9

RECURSIVE Clean(_)
Clean(v) ==
    CASE v.k = "String" -> PlainText(v.text)
      [] v.k = "Number" -> PlainNumber(v.num)
      [] v.k = "Array" -> \A i \in 1..Len(v.items) : Clean(v.items[i])
      [] v.k = "Object" ->
            \A i \in 1..Len(v.entries) : PlainText(v.entries[i][1]) /\ Clean(v.entries[i][2])
      [] OTHER -> TRUE

\* format has returned the text and tokenize has not yet read any of it.
Rendered == pc = "tokenize" /\ chars = input /\ tokens = <<>>

(***************************************************************************)
(* Claims about the formatter and the round trip, under SpecRound          *)
(***************************************************************************)
\* C1: the text of a value tree whose strings and keys hold no double quote,
\* backslash or control character and whose numbers are integers tokenizes and
\* parses back to the same tree, and formatting that tree gives the same text; the
\* pipeline neither exits with an error nor aborts on it.
C1_RoundTrip ==
    Clean(value) =>
        /\ pc \notin {"exit", "panic"}
        /\ pc = "render" => format(value).ok
        /\ pc = "parse" => tokenized.st = "Ok"
        /\ pc \in {"format", "done"} => parsed = [st |-> "Ok", val |-> value, consumed |-> Len(tokens)]
        /\ pc = "done" => output = [st |-> "Ok", text |-> input] /\ stdout = <<input>>

\* A tree of an object in an array, with a string and a number, has made the trip.
C1_Witness ==
    /\ pc = "done" /\ Clean(value) /\ Depth(value) = 2
    /\ value.k = "Array" /\ value.items[1].k = "Object"
    /\ value.items[1].entries[1][2] = JsonNumber(Finite(TRUE, Txt(<<"1", "2">>), 1))
    /\ parsed.val = value /\ output.text = input

\* C9: a value tree is rendered line by line: a non-empty container at depth d is
\* its opening bracket, its children on lines of their own behind 2*(d+1) spaces,
\* a comma after each child but the last, and its closing bracket behind 2*d
\* spaces; a member is its key in double quotes, a colon, a space and its value.
C9_Indentation ==
    /\ Rendered => input = Rendering(value)
    /\ pc = "done" => output.text = Rendering(parsed.val)

\* A tree with a non-empty container inside a non-empty container has been rendered.
C9_Witness ==
    /\ Rendered /\ Depth(value) = 2 /\ value.k = "Object" /\ Len(value.entries) = 2
    /\ input = Rendering(value)

\* C10: an empty array is rendered as the two characters [] and an empty object
\* as {} wherever it stands in the tree; the text [] tokenizes to the two
\* brackets and parses to Array([]), the text {} to the two braces and
\* Object([]), with no error; and the tree parsed from a rendered text holds as
\* many empty arrays and empty objects as the text holds [] and {}.
C10_EmptyContainers ==
    /\ (Rendered \/ pc \in {"format", "done"}) =>
           /\ Occurrences(input, Txt(<<"[", "]">>)) = CountNodes(value, "Array")
           /\ Occurrences(input, Txt(<<"{", "}">>)) = CountNodes(value, "Object")
           /\ value = JsonArray(<<>>) => input = Txt(<<"[", "]">>)
           /\ value = JsonObject(<<>>) => input = Txt(<<"{", "}">>)
    /\ input = Txt(<<"[", "]">>) =>
           /\ pc \notin {"exit", "panic"}
           /\ pc \in {"parse", "format", "done"} =>
                  tokens = <<LeftSquareBracket, RightSquareBracket>>
           /\ pc \in {"format", "done"} =>
                  parsed = [st |-> "Ok", val |-> JsonArray(<<>>), consumed |-> 2]
    /\ input = Txt(<<"{", "}">>) =>
           /\ pc \notin {"exit", "panic"}
           /\ pc \in {"parse", "format", "done"} =>
                  tokens = <<LeftCurlyBracket, RightCurlyBracket>>
           /\ pc \in {"format", "done"} =>
                  parsed = [st |-> "Ok", val |-> JsonObject(<<>>), consumed |-> 2]
    /\ pc \in {"format", "done"} =>
           /\ CountNodes(parsed.val, "Array") = Occurrences(input, Txt(<<"[", "]">>))
           /\ CountNodes(parsed.val, "Object") = Occurrences(input, Txt(<<"{", "}">>))

\* A tree with an empty array as an element and an empty object as a member's
\* value has been rendered, and its text has been parsed back to the same tree.
C10_Witness ==
    /\ pc = "done" /\ Depth(value) = 2
    /\ CountNodes(value, "Array") = 1 /\ CountNodes(value, "Object") = 1
    /\ Occurrences(input, Txt(<<"[", "]">>)) = 1 /\ Occurrences(input, Txt(<<"{", "}">>)) = 1
    /\ parsed.st = "Ok" /\ parsed.val = value
    /\ CountNodes(parsed.val, "Array") = 1 /\ CountNodes(parsed.val, "Object") = 1

(***************************************************************************)
(* The shape of a string literal, read from the character after its        *)
(* opening double quote: closed by an unescaped double quote, unterminated *)
(* (the input ends first), or stopped by its first bad escape.  The text   *)
(* of a \u escape is what follows the u up to a double quote, the end of   *)
(* the input, or the point where the text collected is four bytes of UTF-8 *)
(* long (a character of several bytes can step over that point).  The     *)
(* escape is bad when its text is not four bytes long, when it is not an   *)
(* optional '+' and hexadecimal digits, or when it spells a surrogate      *)
(* (D800..DFFF).                                                           *)
(***************************************************************************)
Shape(shape, text) == [shape |-> shape, text |-> text]

RECURSIVE UpToQuote(_, _)
UpToQuote(cs, n) ==
    IF n = 0 \/ cs = <<>> \/ Head(cs) = QUOTE THEN <<>>
    ELSE <<Head(cs)>> \o UpToQuote(Tail(cs), n - Utf8Len(Head(cs)))

Radix16(t) ==
    LET d == IF t /= <<>> /\ Head(t) = Ord("+") THEN Tail(t) ELSE t
    IN  IF d /= <<>> /\ \A i \in 1..Len(d) : d[i] \in HexDigits THEN d ELSE <<>>

BadUnicode(t) ==
    \/ ByteLen(t) /= 4
    \/ Radix16(t) = <<>>
    \/ HexValue(Radix16(t)) \in 55296..57343

RECURSIVE StringShape(_)
StringShape(cs) ==
    IF cs = <<>> THEN Shape("unterminated", <<>>)
    ELSE IF Head(cs) = QUOTE THEN Shape("closed", <<>>)
    ELSE IF Head(cs) /= BACKSLASH THEN StringShape(Tail(cs))
    ELSE IF Len(cs) = 1 THEN Shape("unterminated", <<>>)
    ELSE IF cs[2] \in {QUOTE, BACKSLASH, Ord("/"), Ord("b"), Ord("f"), Ord("n"), Ord("r"), Ord("t")}
         THEN StringShape(SubSeq(cs, 3, Len(cs)))
    ELSE IF cs[2] /= Ord("u") THEN Shape("bad_escape", <<cs[2]>>)
    ELSE LET t == UpToQuote(SubSeq(cs, 3, Len(cs)), 4)
         IN  IF BadUnicode(t) THEN Shape("bad_unicode", t)
             ELSE StringShape(SubSeq(cs, 7, Len(cs)))

AtString == pc = "tokenize" /\ chars /= <<>> /\ Head(chars) = QUOTE

(***************************************************************************)
(* Claims about the tokenizer, under Spec                                  *)
(***************************************************************************)
\* C2: when the scan reaches a string literal that the input ends before closing,
\* no escape error coming first, tokenize returns Err(UnexpectedEndOfInput).
C2_UnterminatedString ==
    [][(AtString /\ StringShape(Tail(chars)).shape = "unterminated")
           => tokenized' = TokenizeErr(UnexpectedEndOfInput)]_vars

\* C3: when the scan reaches a string literal whose first bad escape is a \u
\* whose text is not four bytes long, is not hexadecimal, or spells a
\* surrogate, tokenize returns Err(InvalidEscapeCharacter(t)), t being that
\* text.
C3_InvalidUnicodeEscape ==
    [][(AtString /\ StringShape(Tail(chars)).shape = "bad_unicode")
           => tokenized' = TokenizeErr(InvalidEscapeCharacter(StringShape(Tail(chars)).text))]_vars

(***************************************************************************)
(* Claims about the formatter's totality, under SpecRound                  *)
(***************************************************************************)
\* C11: format returns a text for every value tree: neither the subtraction
\* indent_level - 1 below zero nor the "Expected object" / "Expected array"
\* branches abort it, on the tree given and on the tree the parser returns.
C11_FormatTotal ==
    /\ pc = "render" => format(value).ok
    /\ pc = "format" => format(parsed.val).ok
    /\ output.st /= "Panic"

\* A tree of three levels has been formatted, parsed back and formatted again.
C11_Witness ==
    /\ pc = "done" /\ output.st = "Ok" /\ Depth(parsed.val) = 3
    /\ parsed.val.k = "Object"

(***************************************************************************)
(* The lexical units of a text, read off the text itself                   *)
(***************************************************************************)
Terminators ==
    {Ord("["), Ord("]"), Ord("{"), Ord("}"), Ord(":"), Ord(","),
     Ord(" "), Ord("\n"), Ord("\t"), Ord("\r")}

\* The longest prefix of cs that holds no character of S.
Before(cs, S) ==
    LET stops == {i \in 1..Len(cs) : cs[i] \in S}
    IN  IF stops = {} THEN cs
        ELSE SubSeq(cs, 1, (CHOOSE i \in stops : \A j \in stops : i <= j) - 1)

After(cs, unit) == SubSeq(cs, Len(unit) + 1, Len(cs))

Bareword(cs) == Before(cs, Terminators)

Scanning == pc = "tokenize" /\ chars /= <<>>

AtBareword ==
    /\ Scanning
    /\ Head(chars) \notin Terminators \cup {QUOTE, Ord("-")} \cup (Ord("0")..Ord("9"))

\* The scan pushes token and goes on behind the unit.
Pushes(token, unit) ==
    /\ tokens' = Append(tokens, token) /\ chars' = After(chars, unit)
    /\ tokenized' = tokenized /\ pc' = pc

\* tokenize returns the error, with no tokens.
Fails(err) == tokenized' = TokenizeErr(err) /\ pc' = "exit"

(***************************************************************************)
(* More claims about the tokenizer, under Spec                             *)
(***************************************************************************)
\* C12: at a character that starts a bareword the scan takes the characters up to
\* the next structural character, whitespace or the end of the input; the text is
\* pushed as True, False or Null when it is true, false or null, and is returned
\* whole in Err(UnexpectedLiteral(text)) otherwise.
C12_Bareword ==
    [][AtBareword =>
          LET t == Bareword(chars)
          IN  CASE t = Txt(<<"t", "r", "u", "e">>) -> Pushes(TrueToken, t)
                [] t = Txt(<<"f", "a", "l", "s", "e">>) -> Pushes(FalseToken, t)
                [] t = Txt(<<"n", "u", "l", "l">>) -> Pushes(NullToken, t)
                [] OTHER -> Fails(UnexpectedLiteral(t))]_vars

\* true, a blank and nul have been scanned.
C12_Witness ==
    /\ tokens = <<TrueToken>>
    /\ tokenized = TokenizeErr(UnexpectedLiteral(Txt(<<"n", "u", "l">>)))
    /\ chars = <<>> /\ Len(input) = 8

\* The characters of a number run, and the runs that are decimal numbers:
\*   [sign] (digits | digits '.' [digits] | '.' digits) [('e' | 'E') [sign] digits]
Numerals == Ord("0")..Ord("9")
RunChars == Numerals \cup {Ord("-"), Ord("+"), Ord("e"), Ord("E"), Ord(".")}

NumberRun(cs) ==
    LET stops == {i \in 1..Len(cs) : cs[i] \notin RunChars}
    IN  IF stops = {} THEN cs
        ELSE SubSeq(cs, 1, (CHOOSE i \in stops : \A j \in stops : i <= j) - 1)

Unsigned(s) == IF s /= <<>> /\ Head(s) \in {Ord("+"), Ord("-")} THEN Tail(s) ELSE s

IsMantissa(m) ==
    /\ \A i \in 1..Len(m) : m[i] \in Numerals \cup {Ord(".")}
    /\ Cardinality({i \in 1..Len(m) : m[i] = Ord(".")}) <= 1
    /\ \E i \in 1..Len(m) : m[i] \in Numerals

IsExponent(x) == Unsigned(x) /= <<>> /\ \A i \in 1..Len(Unsigned(x)) : Unsigned(x)[i] \in Numerals

IsDecimal(run) ==
    LET body == Unsigned(run)
        m == Before(body, {Ord("e"), Ord("E")})
    IN  /\ IsMantissa(m)
        /\ Len(m) < Len(body) => IsExponent(SubSeq(body, Len(m) + 2, Len(body)))

AtNumber == Scanning /\ Head(chars) \in Numerals \cup {Ord("-")}

\* C13: at '-' or a digit the scan takes the longest run of digits, signs, 'e',
\* 'E' and '.', and the whole run has one outcome: one Number token when the run
\* is a decimal number, Err(InvalidNumberLiteral(run)) otherwise.
C13_NumberRun ==
    [][AtNumber =>
          LET run == NumberRun(chars)
          IN  IF IsDecimal(run)
              THEN /\ Len(tokens') = Len(tokens) + 1
                   /\ tokens'[Len(tokens')].type = "Number"
                   /\ Pushes(tokens'[Len(tokens')], run)
              ELSE Fails(InvalidNumberLiteral(run)) /\ tokens' = tokens]_vars

\* 1, a comma and the run 1-9 have been scanned.
C13_Witness ==
    /\ Len(tokens) = 2 /\ tokens[1].type = "Number" /\ tokens[2] = Comma
    /\ tokenized = TokenizeErr(InvalidNumberLiteral(Txt(<<"1", "-", "9">>)))

(***************************************************************************)
(* Whitespace between the lexical units of a text                          *)
(* Gaps(cs, at) lists the positions of cs (at is the position before       *)
(* its first character, counted in the whole text) where a character can   *)
(* be inserted without landing inside a string, a number or a bareword:    *)
(* before and after whitespace and punctuation, before a unit and after a  *)
(* unit that is complete.  The list ends at a string that is not closed.   *)
(***************************************************************************)
Blanks == {Ord(" "), Ord("\t"), Ord("\n"), Ord("\r")}

\* The length of a closed string literal's body and closing quote.
RECURSIVE ClosedLength(_)
ClosedLength(cs) ==
    IF Head(cs) = QUOTE THEN 1
    ELSE IF Head(cs) /= BACKSLASH THEN 1 + ClosedLength(Tail(cs))
    ELSE IF cs[2] = Ord("u") THEN 6 + ClosedLength(SubSeq(cs, 7, Len(cs)))
    ELSE 2 + ClosedLength(SubSeq(cs, 3, Len(cs)))

UnitLength(cs) ==
    IF Head(cs) \in Terminators THEN 1
    ELSE IF Head(cs) = QUOTE
    THEN IF StringShape(Tail(cs)).shape = "closed" THEN 1 + ClosedLength(Tail(cs)) ELSE 0
    ELSE IF Head(cs) \in Numerals \cup {Ord("-")} THEN Len(NumberRun(cs))
    ELSE Len(Bareword(cs))

RECURSIVE Gaps(_, _)
Gaps(cs, at) ==
    IF cs = <<>> \/ UnitLength(cs) = 0 THEN {at}
    ELSE {at} \cup Gaps(SubSeq(cs, UnitLength(cs) + 1, Len(cs)), at + UnitLength(cs))

Insert(text, at, c) == SubSeq(text, 1, at) \o <<c>> \o SubSeq(text, at + 1, Len(text))

Given_ == pc = "tokenize" /\ chars = input /\ tokens = <<>>

(***************************************************************************)
(* Claim about whitespace, under SpecBlank                                 *)
(***************************************************************************)
\* C14: a whitespace character is skipped without a token, and a text with one
\* more whitespace character between its lexical units tokenizes to the same
\* result and gives the same formatted output or the same diagnostic; what the
\* pipeline's steps arrive at is what format_json gives for the text.
C14_WhitespaceIndependence ==
    /\ [](Given_ => \A at \in Gaps(input, 0) : \A c \in Blanks :
                        /\ tokenize(Insert(input, at, c)) = tokenize(input)
                        /\ format_json(Insert(input, at, c)) = format_json(input))
    /\ [](pc = "done" => format_json(input) = Returns(output.text))
    /\ [](pc = "exit" => format_json(input) = Exits(stderr, stdout))
    /\ [][(Scanning /\ Head(chars) \in Blanks)
              => chars' = Tail(chars) /\ tokens' = tokens /\ tokenized' = tokenized]_vars

\* A text of two tokens with a blank between them has been formatted.
C14_Witness ==
    /\ pc = "done" /\ Len(tokens) = 2 /\ Len(input) = 3 /\ input[2] = Ord(" ")
    /\ Gaps(input, 0) = {0, 1, 2, 3}

(***************************************************************************)
(* The first lexical unit in error of a text, read off the text itself     *)
(* Offence(cs, at) scans the units of cs from the left (at characters of   *)
(* the whole text come before cs) and stops at the first one that is not   *)
(* a token: a bareword other than true, false and null, a number run that  *)
(* is not a decimal number, a string stopped by a bad escape or by a       *)
(* backslash that ends the input.  It gives the error and the position of  *)
(* the last character the unit takes.  A string with a bad \u escape or    *)
(* one the input leaves open is left to the claims about strings.          *)
(***************************************************************************)
NoOffence == [kind |-> "none"]
Unsettled == [kind |-> "unsettled"]
OffenceAt(err, end) == [kind |-> "err", err |-> err, end |-> end]

SimpleEscapes == {QUOTE, BACKSLASH, Ord("/"), Ord("b"), Ord("f"), Ord("n"), Ord("r"), Ord("t")}

\* Whether an open string ends with a backslash that starts an escape.
RECURSIVE TrailingBackslash(_)
TrailingBackslash(cs) ==
    IF cs = <<>> THEN FALSE
    ELSE IF Head(cs) /= BACKSLASH THEN TrailingBackslash(Tail(cs))
    ELSE IF Len(cs) = 1 THEN TRUE
    ELSE IF cs[2] = Ord("u") THEN TrailingBackslash(SubSeq(cs, 7, Len(cs)))
    ELSE TrailingBackslash(SubSeq(cs, 3, Len(cs)))

\* The characters a string takes up to and with the escape that stops it.
RECURSIVE StoppedLength(_)
StoppedLength(cs) ==
    IF Head(cs) /= BACKSLASH THEN 1 + StoppedLength(Tail(cs))
    ELSE IF Len(cs) = 1 THEN 1
    ELSE IF cs[2] \in SimpleEscapes THEN 2 + StoppedLength(SubSeq(cs, 3, Len(cs)))
    ELSE IF cs[2] = Ord("u") THEN 6 + StoppedLength(SubSeq(cs, 7, Len(cs)))
    ELSE 2

Keywords == {Txt(<<"t", "r", "u", "e">>), Txt(<<"f", "a", "l", "s", "e">>), Txt(<<"n", "u", "l", "l">>)}

RECURSIVE Offence(_, _)
Offence(cs, at) ==
    IF cs = <<>> THEN NoOffence
    ELSE IF Head(cs) \in Terminators THEN Offence(Tail(cs), at + 1)
    ELSE IF Head(cs) = QUOTE
    THEN LET s == StringShape(Tail(cs))
         IN  CASE s.shape = "closed" ->
                    Offence(SubSeq(cs, 2 + ClosedLength(Tail(cs)), Len(cs)),
                            at + 1 + ClosedLength(Tail(cs)))
               [] s.shape = "bad_escape" ->
                    OffenceAt(InvalidEscapeCharacter(s.text), at + 1 + StoppedLength(Tail(cs)))
               [] s.shape = "unterminated" /\ TrailingBackslash(Tail(cs)) ->
                    OffenceAt(UnexpectedEndOfInput, at + Len(cs))
               [] OTHER -> Unsettled
    ELSE IF Head(cs) \in Numerals \cup {Ord("-")}
    THEN LET run == NumberRun(cs)
         IN  IF IsDecimal(run) THEN Offence(After(cs, run), at + Len(run))
             ELSE OffenceAt(InvalidNumberLiteral(run), at + Len(run))
    ELSE LET t == Bareword(cs)
         IN  IF t \in Keywords THEN Offence(After(cs, t), at + Len(t))
             ELSE OffenceAt(UnexpectedLiteral(t), at + Len(t))

\* The characters of the input the scan has taken.
Taken == SubSeq(input, 1, Len(input) - Len(chars))

(***************************************************************************)
(* Claim about the tokenizer's errors, under Spec                          *)
(***************************************************************************)
\* C15: when tokenize returns an error, the result is the error alone, with none
\* of the tokens scanned before it, and nothing is parsed or formatted; the scan
\* has taken no character behind the unit in error, and the text cut off behind
\* that unit gives the same error; the error is that of the first unit in error
\* from the left, and a text that holds a unit in error never passes the scan.
C15_FailFast ==
    /\ tokenized.st = "Err" =>
           /\ DOMAIN tokenized = {"st", "err"}
           /\ pc = "exit" /\ parsed = NotYet /\ output = NotYet
           /\ tokenize(Taken) = tokenized
           /\ LET o == Offence(input, 0)
              IN  o.kind /= "unsettled" =>
                      /\ o.kind = "err"
                      /\ tokenized = TokenizeErr(o.err)
                      /\ Len(Taken) = o.end
    /\ (pc = "parse" /\ tokenized.st = "Ok") => Offence(input, 0).kind /= "err"

\* The number 1 was scanned and pushed, then the bareword nul stopped the scan
\* in front of a comma.
C15_Witness ==
    /\ tokenized = TokenizeErr(UnexpectedLiteral(Txt(<<"n", "u", "l">>)))
    /\ Len(tokens) = 1 /\ tokens[1].type = "Number"
    /\ chars = <<Ord(",")>>
    /\ Offence(input, 0) = OffenceAt(UnexpectedLiteral(Txt(<<"n", "u", "l">>)), 4)

(***************************************************************************)
(* Claim about the tokens the parser leaves, under SpecParse               *)
(***************************************************************************)
\* C16: when parser returns Ok, every token of the sequence it was given has been
\* consumed in building the value: no token is left behind the top-level value.
C16_AllTokensConsumed == parsed.st = "Ok" => parsed.consumed = Len(tokens)

(***************************************************************************)
(* Claim about the order of the stages, under SpecLive                     *)
(***************************************************************************)
\* C17: the parser has a result only when tokenize has scanned the whole input and
\* returned Ok with the tokens the parser is given; the formatter has a result
\* only when the parser returned Ok; when tokenize returns an error, that error
\* is the diagnostic, nothing is parsed and nothing is printed, also when the
\* tokens before the error are no value; when the parser returns an error, it is
\* the diagnostic and no formatted text is printed; the text returned or the
\* diagnostic is that of format_json; when the file name is missing or the file
\* cannot be read, no stage runs (nor when main aborts reading its arguments).
C17_StageOrder ==
    /\ parsed.st /= "None" =>
           /\ chars = <<>> /\ tokenized = TokenizeOk(tokens)
           /\ tokenize(input) = TokenizeOk(tokens)
    /\ output.st /= "None" => parsed.st = "Ok" /\ pc \in {"done", "panic"}
    /\ tokenized.st = "Err" =>
           /\ parsed = NotYet /\ output = NotYet /\ stdout = <<>>
           /\ stderr = TokenizeDiagnostic(tokenized.err)
    /\ parsed.st = "Err" =>
           /\ output = NotYet /\ stdout \in {<<>>, <<Here>>}
           /\ stderr = ParserDiagnostic(parsed.err)
    /\ (pc = "exit" /\ Offence(input, 0).kind = "err") =>
           stderr = TokenizeDiagnostic(Offence(input, 0).err)
    /\ pc = "done" => stdout = <<output.text>> /\ format_json(input) = Returns(output.text)
    /\ (pc = "exit" /\ tokenized.st /= "None") => format_json(input) = Exits(stderr, stdout)
    /\ (pc \in {"exit", "panic"} /\ tokenized.st = "None") =>
           /\ input = <<>> /\ tokens = <<>> /\ parsed = NotYet /\ stdout = <<>>
           /\ pc = "exit" => stderr /= NoDiagnostic

\* The text ] a: the tokens before the bareword are no value for the parser, and
\* the diagnostic is the bareword's.
C17_Witness ==
    /\ pc = "exit" /\ tokens = <<RightSquareBracket>>
    /\ input = Txt(<<"]", " ", "a">>)
    /\ ~parser(tokens).ok
    /\ stderr = Diagnostic("Unexpected literal", Txt(<<"a">>))
    /\ parsed = NotYet /\ stdout = <<>>

(***************************************************************************)
(* Claim about the scan's termination, under SpecLive                      *)
(***************************************************************************)
\* C18: tokenize ends on every input: each iteration of the scan loop that finds
\* a character leaves fewer characters than it found, whether it pushes a token,
\* skips whitespace or returns an error, and the iteration that finds none
\* returns Ok with the tokens; so the scan comes to an end, and the end is Ok or
\* Err; no error is UnexpectedCharacter.
C18_Terminates ==
    /\ (pc = "tokenize") ~> (tokenized.st \in {"Ok", "Err"})
    /\ [][(pc = "tokenize" /\ chars /= <<>>) => Len(chars') < Len(chars)]_vars
    /\ [][(pc = "tokenize" /\ chars = <<>>) => tokenized' = TokenizeOk(tokens)]_vars
    /\ [](tokenized.st = "Err" => tokenized.err.kind /= "UnexpectedCharacter")

====
